---- MODULE Spec2Model ----
(***************************************************************************)
(* Model of the RAG agent service: the semantic cache                      *)
(* (rag_agent/cache.py), the agent graph (rag_agent/graph_builder.py,      *)
(* rag_agent/nodes.py) and the /v1/chat request handler                    *)
(* (rag_agent/api.py).                                                     *)
(*                                                                         *)
(* Text is a sequence of one-character strings, so that strip() and        *)
(* lower() are computed and not assumed.  An embedding is a 4-vector of    *)
(* integers with an integral norm; a cosine similarity is the exact        *)
(* rational <<dot, |a|*|b|>>, compared by cross multiplication.            *)
(***************************************************************************)
EXTENDS Integers, Sequences, FiniteSets, TLC

VARIABLES
    store,      \* SemanticCache._store: the entries, in dict (insertion) order
    now,        \* time.time()
    last,       \* the last completed cache operation and what it returned
    g,          \* the frame of a get that runs step by step (SpecRace)
    pf,         \* the frame of a put that runs step by step (SpecPutRace)
    messages,   \* MessagesState["messages"] of the run of the graph
    pc,         \* the node of the graph that runs next
    trace,      \* the states of the control loop the run has entered
    rewrites,   \* the number of rewrite_question steps of the run
    grade,      \* what the grader returned to the last grade_documents
    onlyNo,     \* the grader has answered "no" every time so far
    llm,        \* what the last call of the Language Model in the run was given
    llm_cache,  \* the InMemoryCache of set_llm_cache: prompts and generations
    req,        \* the /v1/chat requests: handler, graph thread, response
    ex          \* a call of _collect_last_citations: messages and result

cacheVars == <<store, now, last>>
loopVars == <<messages, pc, trace, rewrites, grade, onlyNo, llm>>
vars == <<store, now, last, g, pf, messages, pc, trace, rewrites, grade, onlyNo, llm,
          llm_cache, req, ex>>

----------------------------------------------------------------------------
(* Bounds of the model and the configuration of the cache.                 *)

\* SemanticCache(max_entries=...): the capacity the cache is built with.
MaxEntries == 2
\* SemanticCache(ttl_seconds=...): the time to live, in clock ticks.
Ttl == 1
\* The clock stops one tick after the first entry can have expired.
MaxTime == Ttl + 1
\* hit_count is followed up to this value.
MaxHits == 1

\* similarity_threshold = 0.92 = 23/25
ThresholdNum == 23
ThresholdDen == 25

----------------------------------------------------------------------------
(* Text: str.strip() and str.lower().                                      *)

IsSpace(c) == c \in {" ", "\n", "\t"}

LowerChar(c) ==
    CASE c = "A" -> "a"
      [] c = "B" -> "b"
      [] c = "E" -> "e"
      [] c = "N" -> "n"
      [] c = "O" -> "o"
      [] c = "S" -> "s"
      [] c = "Y" -> "y"
      [] OTHER -> c

Lower(s) == [i \in 1..Len(s) |-> LowerChar(s[i])]

RECURSIVE LStrip(_)
LStrip(s) ==
    IF s = <<>> THEN <<>>
    ELSE IF IsSpace(Head(s)) THEN LStrip(Tail(s)) ELSE s

RECURSIVE RStrip(_)
RStrip(s) ==
    IF s = <<>> THEN <<>>
    ELSE IF IsSpace(s[Len(s)]) THEN RStrip(SubSeq(s, 1, Len(s) - 1)) ELSE s

Strip(s) == RStrip(LStrip(s))

----------------------------------------------------------------------------
(* The queries of the model and the Embedding Provider.                    *)

QA  == <<"a">>
QA2 == <<" ", "A">>
QB  == <<"b">>
QC  == <<"c">>
QD  == <<"d">>
Queries == {QA, QA2, QB, QC, QD}

\* a query of another key whose embedding has the direction of that of QB
QE  == <<"e">>
\* the queries of the cache whose embeddings have one direction, and QA
SameDirectionQueries == {QA, QB, QE}

\* embed_query: a deterministic provider.  QA and QA2 normalize to the same
\* key and are at cosine 24/25; QB is at exactly 23/25 of QA (the threshold)
\* and above it of QA2; QD is twice as long, at 24/25 of QA and below the
\* threshold of QA2 and QB; QC is the degenerate (zero) embedding; QE is
\* twice the embedding of QB.
EmbedQuery(text) ==
    CASE text = QA  -> <<25, 0, 0, 0>>
      [] text = QA2 -> <<24, 7, 0, 0>>
      [] text = QB  -> <<23, 4, 4, 8>>
      [] text = QC  -> <<0, 0, 0, 0>>
      [] text = QD  -> <<48, -14, 0, 0>>
      [] text = QE  -> <<46, 8, 8, 16>>

\* (answer, citations) pairs a caller stores
Cit1 == [source |-> "policy.pdf", page |-> 3]
Payloads == { [answer |-> "A1", citations |-> <<Cit1>>],
              [answer |-> "A2", citations |-> <<>>] }

----------------------------------------------------------------------------
(* SemanticCache internals.                                                *)

GetEmbedding(text) == EmbedQuery(text)

Dot(a, b) == a[1]*b[1] + a[2]*b[2] + a[3]*b[3] + a[4]*b[4]

\* the integer square root of n2, by bisection of lo..hi
RECURSIVE SqrtBetween(_, _, _)
SqrtBetween(n2, lo, hi) ==
    IF lo >= hi THEN lo
    ELSE LET mid == (lo + hi + 1) \div 2
         IN  IF mid * mid <= n2 THEN SqrtBetween(n2, mid, hi)
                                ELSE SqrtBetween(n2, lo, mid - 1)

\* np.linalg.norm: the embeddings of the model have integral norms
Norm(a) == SqrtBetween(Dot(a, a), 0, 50)

\* A similarity is the rational <<numerator, denominator>>, denominator > 0.
SimGT(x, y) == x[1] * y[2] > y[1] * x[2]
SimGE(x, y) == x[1] * y[2] >= y[1] * x[2]

\* CosineSimilarity taking two embeddings of which one has norm 0 for equal
CosineSimilarityOneOnZero(a, b) ==
    LET denom == Norm(a) * Norm(b)
    IN  IF denom = 0 THEN <<1, 1>> ELSE <<Dot(a, b), denom>>

CosineSimilarity(a, b) ==
    LET denom == Norm(a) * Norm(b)
    IN  IF denom = 0 THEN <<0, 1>> ELSE <<Dot(a, b), denom>>

\* MakeKey without strip() and lower(): the text as it is
MakeKeyRaw(query) == query

\* sha256 of the normalized text, taken as injective: the normalized text
MakeKey(query) == Lower(Strip(query))

Threshold == <<ThresholdNum, ThresholdDen>>

\* best_sim: float = -1.0
InitialBestSim == <<-1, 1>>

NoKey == <<"-">>

CacheEntry(query, answer, citations, embedding, t) ==
    [key |-> MakeKey(query), query |-> query, answer |-> answer,
     citations |-> citations, embedding |-> embedding,
     created_at |-> t, hit_count |-> 0]

\* IsExpired with a time to live that is one tick longer
IsExpiredLate(e, t) == t - e.created_at > Ttl + 1

\* now - v.created_at > self.ttl
IsExpired(e, t) == t - e.created_at > Ttl

EvictExpired(s, t) ==
    LET Keep(e) == ~IsExpired(e, t)
    IN  SelectSeq(s, Keep)

\* Scan with "sim >= best_sim": the last entry of maximal similarity wins
RECURSIVE ScanLastOnTie(_, _, _, _)
ScanLastOnTie(s, qvec, bestKey, bestSim) ==
    IF s = <<>> THEN [key |-> bestKey, sim |-> bestSim]
    ELSE LET sim == CosineSimilarity(qvec, Head(s).embedding)
         IN  IF SimGE(sim, bestSim)
             THEN ScanLastOnTie(Tail(s), qvec, Head(s).key, sim)
             ELSE ScanLastOnTie(Tail(s), qvec, bestKey, bestSim)

\* Scan leaving the loop after the first entry
ScanFirstOnly(s, qvec, bestKey, bestSim) ==
    IF s = <<>> THEN [key |-> bestKey, sim |-> bestSim]
    ELSE LET sim == CosineSimilarity(qvec, Head(s).embedding)
         IN  IF SimGT(sim, bestSim)
             THEN [key |-> Head(s).key, sim |-> sim]
             ELSE [key |-> bestKey, sim |-> bestSim]

\* the loop of get: the running (best_key, best_sim) over the entries in order
RECURSIVE Scan(_, _, _, _)
Scan(s, qvec, bestKey, bestSim) ==
    IF s = <<>> THEN [key |-> bestKey, sim |-> bestSim]
    ELSE LET sim == CosineSimilarity(qvec, Head(s).embedding)
         IN  IF SimGT(sim, bestSim)
             THEN Scan(Tail(s), qvec, Head(s).key, sim)
             ELSE Scan(Tail(s), qvec, bestKey, bestSim)

Keys(s) == {s[i].key : i \in 1..Len(s)}

Min(S) == CHOOSE x \in S : \A y \in S : x <= y

IndexOfKey(s, k) ==
    IF \E i \in 1..Len(s) : s[i].key = k
    THEN CHOOSE i \in 1..Len(s) : s[i].key = k
    ELSE 0

\* DictSet updating an existing entry in place: the hit count and the time
\* of creation of the entry stay
DictSetKeepingMeta(s, e) ==
    LET i == IndexOfKey(s, e.key)
    IN  IF i = 0 THEN Append(s, e)
        ELSE [s EXCEPT ![i] = [e EXCEPT !.hit_count = s[i].hit_count,
                                        !.created_at = s[i].created_at]]

\* DictSet adding the entry at the end whatever the keys present
DictSetAppend(s, e) == Append(s, e)

\* self._store[key] = entry: an existing key keeps its place in the dict
DictSet(s, e) ==
    LET i == IndexOfKey(s, e.key)
    IN  IF i = 0 THEN Append(s, e) ELSE [s EXCEPT ![i] = e]

\* DictDel comparing the key with the query the entry was written with
DictDelByQuery(s, k) ==
    LET Keep(e) == e.query # k
    IN  SelectSeq(s, Keep)

DictDel(s, k) ==
    LET Keep(e) == e.key # k
    IN  SelectSeq(s, Keep)

\* OldestKey as next(iter(self._store)): the first key in dict order
FirstKey(s) == s[1].key

\* min(self._store, key=created_at): the first entry of minimal created_at
OldestKey(s) ==
    LET i == CHOOSE i \in 1..Len(s) :
                 /\ \A j \in 1..Len(s) : s[i].created_at <= s[j].created_at
                 /\ \A j \in 1..(i - 1) : s[j].created_at > s[i].created_at
    IN  s[i].key

\* EnforceCapacity with "len(self._store) > self.max_entries + 1"
RECURSIVE EnforceCapacityLate(_)
EnforceCapacityLate(s) ==
    IF Len(s) > MaxEntries + 1
    THEN EnforceCapacityLate(DictDel(s, OldestKey(s))) ELSE s

RECURSIVE EnforceCapacity(_)
EnforceCapacity(s) ==
    IF Len(s) > MaxEntries THEN EnforceCapacity(DictDel(s, OldestKey(s))) ELSE s

----------------------------------------------------------------------------
(* The operations of SemanticCache, each run to completion.                *)

\* op: the operation; hit, answer, citations: what get returned, with the
\* created_at of the entry it returned; n: what size returned, or the number
\* of entries a put evicted, with the created_at of the evicted entry and
\* its place in the dict; prev: the query and answer of the entry a put
\* overwrote, if any, and then
\* answer, citations: what the put stored; for a get, prev holds the query
\* and answer of the expired entries it swept;
\* removed: what invalidate returned; error: the exception raised, if any
NoResult == [op |-> "none", query |-> <<>>, hit |-> FALSE, answer |-> "",
             citations |-> <<>>, created_at |-> 0, n |-> 0, pos |-> 0,
             prev |-> <<>>, removed |-> FALSE, error |-> "none"]

\* the query and answer of the entries of s that are expired at time t
Swept(s, t) ==
    LET Gone(e) == IsExpired(e, t)
        gone == SelectSeq(s, Gone)
    IN  [i \in 1..Len(gone) |->
            [query |-> gone[i].query, answer |-> gone[i].answer]]

\* CountHit that also gives the entry one more tick to live
CountHitAndRenew(e) ==
    [e EXCEPT !.hit_count = @ + 1, !.created_at = @ + 1]

\* entry.hit_count += 1
CountHit(e) == [e EXCEPT !.hit_count = @ + 1]

\* the exception of embed_query
EmbeddingError == "EmbeddingError"

Get(query) ==
    /\ IF store = <<>>
       THEN /\ store' = store
            /\ last' = [NoResult EXCEPT !.op = "get", !.query = query]
       ELSE LET qvec == GetEmbedding(query)
                live == EvictExpired(store, now)
                best == Scan(live, qvec, NoKey, InitialBestSim)
                i    == IndexOfKey(live, best.key)
            IN  IF best.key # NoKey /\ SimGE(best.sim, Threshold)
                THEN /\ live[i].hit_count < MaxHits
                     /\ store' = [live EXCEPT ![i] = CountHit(@)]
                     /\ last' = [NoResult EXCEPT !.op = "get", !.query = query,
                                    !.hit = TRUE, !.answer = live[i].answer,
                                    !.citations = live[i].citations,
                                    !.created_at = live[i].created_at,
                                    !.prev = Swept(store, now)]
                ELSE /\ store' = live
                     /\ last' = [NoResult EXCEPT !.op = "get", !.query = query,
                                    !.prev = Swept(store, now)]
    /\ UNCHANGED now

\* GetFails raising after the sweep of the expired entries
GetFailsAfterSweep ==
    /\ store # <<>>
    /\ store' = EvictExpired(store, now)
    /\ last' = [NoResult EXCEPT !.op = "get", !.error = EmbeddingError]
    /\ UNCHANGED now

\* get, of any query, when embed_query raises: the store is not empty, and
\* the exception leaves get from its first statement after the test of the
\* store
GetFails ==
    /\ store # <<>>
    /\ last' = [NoResult EXCEPT !.op = "get", !.error = EmbeddingError]
    /\ UNCHANGED <<store, now>>

\* put, of any query, when embed_query raises: the exception leaves put
\* from its first statement
PutFails ==
    /\ last' = [NoResult EXCEPT !.op = "put", !.error = EmbeddingError]
    /\ UNCHANGED <<store, now>>

Put(query, answer, citations) ==
    LET qvec == GetEmbedding(query)
        inserted == DictSet(store, CacheEntry(query, answer, citations, qvec, now))
        evicted == {i \in 1..Len(inserted) : inserted[i].key \notin Keys(store')}
    IN  /\ store' = EnforceCapacity(inserted)
        /\ last' = [NoResult EXCEPT !.op = "put", !.query = query,
                       !.answer = answer, !.citations = citations,
                       !.prev = LET i == IndexOfKey(store, MakeKey(query))
                                IN  IF i = 0 THEN <<>>
                                    ELSE <<[query |-> store[i].query,
                                            answer |-> store[i].answer]>>,
                       !.n = Len(inserted) - Len(store'),
                       !.created_at = IF evicted = {} THEN 0
                                      ELSE inserted[Min(evicted)].created_at,
                       !.pos = IF evicted = {} THEN 0 ELSE Min(evicted)]
        /\ UNCHANGED now

Invalidate(query) ==
    LET key == MakeKey(query)
    IN  /\ store' = DictDel(store, key)
        /\ last' = [NoResult EXCEPT !.op = "invalidate", !.query = query,
                       !.removed = (IndexOfKey(store, key) # 0)]
        /\ UNCHANGED now

\* Clear sweeping only the entries past their time to live
ClearExpiredOnly ==
    /\ store' = EvictExpired(store, now)
    /\ last' = [NoResult EXCEPT !.op = "clear", !.n = Len(store)]
    /\ UNCHANGED now

\* self._store.clear(); n records the number of entries before the call
Clear ==
    /\ store' = <<>>
    /\ last' = [NoResult EXCEPT !.op = "clear", !.n = Len(store)]
    /\ UNCHANGED now

Size ==
    /\ last' = [NoResult EXCEPT !.op = "size", !.n = Len(store)]
    /\ UNCHANGED <<store, now>>

\* the clock advances between operations
Tick ==
    /\ now < MaxTime
    /\ now' = now + 1
    /\ UNCHANGED <<store, last>>

----------------------------------------------------------------------------
(* get, statement by statement.  chat() calls it on the event loop thread;  *)
(* cache_clear() is a plain "def" endpoint, which the server runs on a      *)
(* worker thread, so that its clear() can run between any two statements.   *)

notRace == <<pf, messages, pc, trace, rewrites, grade, onlyNo, llm, llm_cache, req,
            ex>>

IdleFrame == [pc |-> "idle", query |-> <<>>, qvec |-> <<>>, expired |-> {},
              used |-> 0, idx |-> 0, bestKey |-> NoKey,
              bestSim |-> InitialBestSim]

\* if not self._store: return None
GetBegin(query) ==
    /\ UNCHANGED notRace
    /\ g.pc = "idle"
    /\ IF store = <<>>
       THEN /\ last' = [NoResult EXCEPT !.op = "get", !.query = query]
            /\ UNCHANGED g
       ELSE /\ g' = [IdleFrame EXCEPT !.pc = "embed", !.query = query]
            /\ UNCHANGED last
    /\ UNCHANGED <<store, now>>

\* q_vec = self._get_embedding(query)
GetEmbed ==
    /\ UNCHANGED notRace
    /\ g.pc = "embed"
    /\ g' = [g EXCEPT !.pc = "sweep", !.qvec = GetEmbedding(g.query)]
    /\ UNCHANGED <<store, now, last>>

\* _evict_expired: expired = [k for k, v in self._store.items() if ...]
GetSweepList ==
    /\ UNCHANGED notRace
    /\ g.pc = "sweep"
    /\ g' = [g EXCEPT !.pc = "delete",
                      !.expired = {store[i].key : i \in
                                     {j \in 1..Len(store) : IsExpired(store[j], now)}}]
    /\ UNCHANGED <<store, now, last>>

\* _evict_expired: for k in expired: del self._store[k]; then iter(items())
GetSweepDelete ==
    /\ UNCHANGED notRace
    /\ g.pc = "delete"
    /\ IF g.expired \subseteq Keys(store)
       THEN LET live == SelectSeq(store, LAMBDA e : e.key \notin g.expired)
            IN  /\ store' = live
                /\ g' = [g EXCEPT !.pc = "scan", !.used = Len(live), !.idx = 1]
                /\ UNCHANGED last
       ELSE /\ g' = IdleFrame
            /\ last' = [NoResult EXCEPT !.op = "get", !.query = g.query,
                            !.error = "KeyError"]
            /\ UNCHANGED store
    /\ UNCHANGED now

\* one turn of "for key, entry in self._store.items()": the iterator raises
\* when the size of the dict is not the size it started with
GetScanNext ==
    /\ UNCHANGED notRace
    /\ g.pc = "scan"
    /\ IF Len(store) # g.used
       THEN /\ g' = IdleFrame
            /\ last' = [NoResult EXCEPT !.op = "get", !.query = g.query,
                            !.error = "RuntimeError"]
       ELSE /\ UNCHANGED last
            /\ IF g.idx > Len(store)
               THEN g' = [g EXCEPT !.pc = "select"]
               ELSE LET sim == CosineSimilarity(g.qvec, store[g.idx].embedding)
                    IN  IF SimGT(sim, g.bestSim)
                        THEN g' = [g EXCEPT !.idx = @ + 1, !.bestSim = sim,
                                            !.bestKey = store[g.idx].key]
                        ELSE g' = [g EXCEPT !.idx = @ + 1]
    /\ UNCHANGED <<store, now>>

\* if best_key is not None and best_sim >= self.threshold: ... return
GetSelect ==
    /\ UNCHANGED notRace
    /\ g.pc = "select"
    /\ g' = IdleFrame
    /\ IF g.bestKey # NoKey /\ SimGE(g.bestSim, Threshold)
       THEN LET i == IndexOfKey(store, g.bestKey)
            IN  IF i = 0
                THEN /\ last' = [NoResult EXCEPT !.op = "get", !.query = g.query,
                                     !.error = "KeyError"]
                     /\ UNCHANGED store
                ELSE /\ store[i].hit_count < MaxHits
                     /\ store' = [store EXCEPT ![i].hit_count = @ + 1]
                     /\ last' = [NoResult EXCEPT !.op = "get", !.query = g.query,
                                     !.hit = TRUE, !.answer = store[i].answer,
                                     !.citations = store[i].citations,
                                     !.created_at = store[i].created_at]
       ELSE /\ last' = [NoResult EXCEPT !.op = "get", !.query = g.query]
            /\ UNCHANGED store
    /\ UNCHANGED now

\* DELETE /v1/cache on a worker thread
CacheClear ==
    /\ UNCHANGED notRace
    /\ store' = <<>>
    /\ UNCHANGED <<now, last, g>>

\* the put of another request, on the event loop once this get has returned
PutOnLoop ==
    /\ UNCHANGED notRace
    /\ g.pc = "idle"
    /\ \E q \in Queries, p \in Payloads : Put(q, p.answer, p.citations)
    /\ UNCHANGED g

----------------------------------------------------------------------------
(* put, statement by statement.  chat() calls it on the event loop thread;  *)
(* cache_stats() and cache_clear() are plain "def" endpoints, which the     *)
(* server runs on worker threads, so that the size read and clear() can run *)
(* between any two statements of put.  get and put are only called from     *)
(* chat(), which does not await inside them: they never run inside a put.   *)

notPut == <<g, messages, pc, trace, rewrites, grade, onlyNo, llm, llm_cache, req,
           ex>>

IdlePut == [pc |-> "idle", query |-> <<>>, oldest |-> NoKey]

\* q_vec = ...; key = ...; self._store[key] = CacheEntry(...)
PutInsert(query, answer, citations) ==
    /\ UNCHANGED notPut
    /\ pf.pc = "idle"
    /\ store' = DictSet(store, CacheEntry(query, answer, citations,
                                          GetEmbedding(query), now))
    /\ pf' = [IdlePut EXCEPT !.pc = "check", !.query = query]
    /\ UNCHANGED <<now, last>>

\* _enforce_capacity: while len(self._store) > self.max_entries; put
\* returns when the test fails
PutCheck ==
    /\ UNCHANGED notPut
    /\ pf.pc = "check"
    /\ IF Len(store) > MaxEntries
       THEN /\ pf' = [pf EXCEPT !.pc = "min"]
            /\ UNCHANGED last
       ELSE /\ pf' = IdlePut
            /\ last' = [NoResult EXCEPT !.op = "put", !.query = pf.query]
    /\ UNCHANGED <<store, now>>

\* oldest_key = min(self._store, key=...): ValueError on an empty dict
PutPickOldest ==
    /\ UNCHANGED notPut
    /\ pf.pc = "min"
    /\ IF store = <<>>
       THEN /\ pf' = IdlePut
            /\ last' = [NoResult EXCEPT !.op = "put", !.query = pf.query,
                            !.error = "ValueError"]
       ELSE /\ pf' = [pf EXCEPT !.pc = "del", !.oldest = OldestKey(store)]
            /\ UNCHANGED last
    /\ UNCHANGED <<store, now>>

\* del self._store[oldest_key]: KeyError when the key is gone
PutDel ==
    /\ UNCHANGED notPut
    /\ pf.pc = "del"
    /\ IF pf.oldest \in Keys(store)
       THEN /\ store' = DictDel(store, pf.oldest)
            /\ pf' = [pf EXCEPT !.pc = "check", !.oldest = NoKey]
            /\ UNCHANGED last
       ELSE /\ pf' = IdlePut
            /\ last' = [NoResult EXCEPT !.op = "put", !.query = pf.query,
                            !.error = "KeyError"]
            /\ UNCHANGED store
    /\ UNCHANGED now

\* the get of another request, on the event loop once this put has returned
GetOnLoop ==
    /\ UNCHANGED notPut
    /\ pf.pc = "idle"
    /\ \E q \in Queries : Get(q)
    /\ UNCHANGED pf

----------------------------------------------------------------------------
(* The agent graph: graph_builder.build_graph and the nodes of nodes.py.    *)
(* A message content is a sequence of lines; a line is a record [k, v], v   *)
(* a sequence of characters:                                                *)
(*   k a field key or "CONTENT": the line "K:" followed by the text v;      *)
(*   k = "CITATION": the line "[CITATION v]", v the digits; with v empty,   *)
(*       a line that starts with "[CITATION" and has no number;             *)
(*   k = "ECHO": a line of text that ends with the marker "[CITATION v]";   *)
(*   k = "MENTION": a line of text with "SOURCE:" after its first word;     *)
(*   k = "BLANK": the empty line; k = "TEXT": the line of other text v.     *)

Line(k, v) == [k |-> k, v |-> v]

Message(role, content, toolCalls) ==
    [role |-> role, content |-> content, tool_calls |-> toolCalls]

Question == <<Line("TEXT", <<"q", "?">>)>>
RewrittenQuestion == <<Line("TEXT", <<"q", "2">>)>>

\* a passage of the vector store: the metadata, with the defaults of
\* meta.get applied, and page_content as a sequence of lines
Doc(source, title, page, chunk, text) ==
    [source |-> source, title |-> title, page |-> page, chunk |-> chunk,
     text |-> text]

\* str(i) of a record number
Str(i) == <<CASE i = 1 -> "1" [] i = 2 -> "2" [] i = 3 -> "3" [] OTHER -> "0">>

\* the characters of a line; a key and its colon count as one character
Render(line) ==
    CASE line.k = "TEXT" -> line.v
      [] line.k = "BLANK" -> <<>>
      [] line.k = "CITATION" -> <<"[CITATION">> \o line.v
      [] line.k = "ECHO" -> <<"x", " ", "[CITATION">> \o line.v
      [] line.k = "MENTION" -> <<"x", " ", "SOURCE:">> \o line.v
      [] OTHER -> <<line.k>> \o line.v

\* text.replace("\n", " "): the lines joined by blanks
RECURSIVE JoinLines(_)
JoinLines(lines) ==
    IF lines = <<>> THEN <<>>
    ELSE IF Len(lines) = 1 THEN Render(lines[1])
    ELSE Render(Head(lines)) \o <<" ">> \o JoinLines(Tail(lines))

\* the block of the i-th passage: f"[CITATION {i}]\nSOURCE: {source}\n..."
Record(i, doc) ==
    << Line("CITATION", Str(i)),
       Line("SOURCE", <<" ">> \o doc.source),
       Line("TITLE", <<" ">> \o doc.title),
       Line("PAGE", <<" ">> \o doc.page),
       Line("CHUNK", <<" ">> \o doc.chunk),
       Line("SNIPPET", <<" ">> \o Strip(JoinLines(doc.text))),
       Line("CONTENT", <<>>) >>
    \o (IF doc.text = <<>> THEN <<Line("BLANK", <<>>)>> ELSE doc.text)

\* "\n\n".join(blocks) of the blocks from the i-th on
RECURSIVE JoinBlocks(_, _)
JoinBlocks(docs, i) ==
    IF i > Len(docs) THEN <<>>
    ELSE IF i = Len(docs) THEN Record(i, docs[i])
    ELSE Record(i, docs[i]) \o <<Line("BLANK", <<>>)>> \o JoinBlocks(docs, i + 1)

\* retrieve_blog_posts: the wire text of the passages found
RetrieveBlogPosts(docs) == JoinBlocks(docs, 1)

DocP == Doc(<<"p">>, <<"R">>, <<"3">>, <<"1">>, <<Line("TEXT", <<"r">>)>>)
DocF == Doc(<<"f">>, <<>>, <<>>, <<"1">>, <<Line("TEXT", <<"s">>)>>)
\* a passage with a page and no title, and one with a title and no page
DocG == Doc(<<"g">>, <<>>, <<"3">>, <<"1">>, <<Line("TEXT", <<"t">>)>>)
DocH == Doc(<<"h">>, <<"S">>, <<>>, <<"1">>, <<Line("TEXT", <<"t">>)>>)

\* what the tool returns in a run of the graph
ToolOutputs == {RetrieveBlogPosts(<<DocP>>), RetrieveBlogPosts(<<DocF>>)}

DirectAnswer == <<Line("TEXT", <<"h", "i">>)>>
GroundedAnswer == <<Line("TEXT", <<"r">>), Line("ECHO", <<"1">>)>>

\* what llm.with_structured_output(GradeDocuments).invoke returns or does:
\* a GradeDocuments with its binary_score, no object at all, or an exception
NoneValue == <<"None">>
Parsed(score) == [kind |-> "parsed", binary_score |-> score]
GradeYes == Parsed(<<"y", "e", "s">>)
GradeNo == Parsed(<<"n", "o">>)
GraderOutcomes ==
    { GradeYes, GradeNo,
      Parsed(<<" ", "Y", "E", "S", "\n">>),
      Parsed(<<>>),
      Parsed(NoneValue),
      [kind |-> "none", binary_score |-> NoneValue],
      [kind |-> "raise", binary_score |-> NoneValue] }
NotGraded == [kind |-> "not graded", binary_score |-> NoneValue]

\* the number of rewrites the specification gives as an example of the
\* maximum to configure; the model follows a run one rewrite further
MaxRewrites == 3
RewriteHorizon == MaxRewrites + 1

\* the state of the control loop that a node of the graph stands for
StateOf(node) ==
    CASE node = "generate_query_or_respond" -> "Decide"
      [] node = "retrieve" -> "InvokeRetrieval"
      [] node = "grade_documents" -> "Grade"
      [] node = "rewrite_question" -> "RewriteQuery"
      [] node = "generate_answer" -> "GenerateAnswer"
      [] node = "END" -> "Respond"
      [] OTHER -> "Error"

\* tools_condition with {"tools": "retrieve", END: END}
ToolsCondition(message) == IF message.tool_calls THEN "retrieve" ELSE "END"

\* the edge of rewrite_question drawn to "retrieve"
AfterRewriteToRetrieve == "retrieve"

\* workflow.add_edge("rewrite_question", "generate_query_or_respond")
AfterRewrite == "generate_query_or_respond"

\* score = (response.binary_score or "").lower().strip()
Score(response) ==
    Strip(Lower(IF response.binary_score = NoneValue THEN <<>>
                ELSE response.binary_score))

\* grade_documents: the node it returns, or the exception it ends with
GradeDocuments(response) ==
    CASE response.kind = "raise" -> "OutputParserException"
      [] response.kind = "none" -> "AttributeError"
      [] OTHER -> IF Score(response) = <<"y", "e", "s">>
                  THEN "generate_answer" ELSE "rewrite_question"

Nodes == {"generate_query_or_respond", "retrieve", "grade_documents",
          "rewrite_question", "generate_answer"}

\* what a node gives the Language Model: the messages of the state, or a
\* prompt made of a question and a context
Prompt(node, question, context, msgs) ==
    [node |-> node, question |-> question, context |-> context,
     messages |-> msgs]
NoPrompt == Prompt("none", <<>>, <<>>, <<>>)

\* llm.bind_tools(tools).invoke(state["messages"])
DecideInput(msgs) == Prompt("generate_query_or_respond", <<>>, <<>>, msgs)

\* GRADE_PROMPT.format(question=messages[0].content,
\*                     context=messages[-1].content)
GradePrompt(msgs) ==
    Prompt("grade_documents", msgs[1].content, msgs[Len(msgs)].content, <<>>)

\* RewritePrompt with the content of the last message as the question
RewritePromptOfLatest(msgs) ==
    Prompt("rewrite_question", msgs[Len(msgs)].content, <<>>, <<>>)

\* REWRITE_PROMPT.format(question=messages[0].content)
RewritePrompt(msgs) == Prompt("rewrite_question", msgs[1].content, <<>>, <<>>)

\* the content of the last message of role "user"
LatestUserContent(msgs) ==
    LET U == {i \in 1..Len(msgs) : msgs[i].role = "user"}
    IN  msgs[CHOOSE i \in U : \A j \in U : j <= i].content

\* GeneratePrompt with the latest user message as the question
GeneratePromptOfLatest(msgs) ==
    Prompt("generate_answer", LatestUserContent(msgs),
           msgs[Len(msgs)].content, <<>>)

\* GENERATE_PROMPT.format(question=messages[0].content,
\*                        context=messages[-1].content)
GeneratePrompt(msgs) ==
    Prompt("generate_answer", msgs[1].content, msgs[Len(msgs)].content, <<>>)

\* a state whose "messages" is a plain list: the update takes its place
OverwriteMessages(msgs, new) == <<new>>

\* a reducer that adds the message of an update twice
AddMessagesTwice(msgs, new) == Append(Append(msgs, new), new)

\* MessagesState: the reducer add_messages appends the message of an update
AddMessages(msgs, new) == Append(msgs, new)

notLoop == <<store, now, last, g, pf, llm_cache, req, ex>>

\* generate_query_or_respond, then the conditional edge tools_condition
GenerateQueryOrRespond ==
    /\ pc = "generate_query_or_respond"
    /\ \E response \in { Message("ai", <<>>, TRUE),
                         Message("ai", DirectAnswer, FALSE) } :
          /\ messages' = AddMessages(messages, response)
          /\ pc' = ToolsCondition(response)
          /\ trace' = Append(trace, StateOf(pc'))
    /\ llm' = DecideInput(messages)
    /\ UNCHANGED <<rewrites, grade, onlyNo>>
    /\ UNCHANGED notLoop

\* ToolNode(tools): the tool message of the call
Retrieve ==
    /\ pc = "retrieve"
    /\ \E output \in ToolOutputs :
          messages' = AddMessages(messages, Message("tool", output, FALSE))
    /\ pc' = "grade_documents"
    /\ trace' = Append(trace, StateOf(pc'))
    /\ UNCHANGED <<rewrites, grade, onlyNo, llm>>
    /\ UNCHANGED notLoop

\* the conditional edge grade_documents after "retrieve"
Grade ==
    /\ pc = "grade_documents"
    /\ \E response \in GraderOutcomes :
          /\ grade' = response
          /\ onlyNo' = (onlyNo /\ response = GradeNo)
          /\ llm' = GradePrompt(messages)
          /\ pc' = IF GradeDocuments(response) \in Nodes
                   THEN GradeDocuments(response) ELSE "error"
          /\ trace' = IF pc' = "error" THEN trace
                      ELSE Append(trace, StateOf(pc'))
    /\ UNCHANGED <<messages, rewrites>>
    /\ UNCHANGED notLoop

\* rewrite_question, then the edge back
RewriteQuestion ==
    /\ pc = "rewrite_question"
    /\ rewrites < RewriteHorizon
    /\ llm' = RewritePrompt(messages)
    /\ messages' = AddMessages(messages,
                                Message("user", RewrittenQuestion, FALSE))
    /\ rewrites' = rewrites + 1
    /\ pc' = AfterRewrite
    /\ trace' = Append(trace, StateOf(pc'))
    /\ UNCHANGED <<grade, onlyNo>>
    /\ UNCHANGED notLoop

\* generate_answer, then the edge to END
GenerateAnswer ==
    /\ pc = "generate_answer"
    /\ llm' = GeneratePrompt(messages)
    /\ messages' = AddMessages(messages, Message("ai", GroundedAnswer, FALSE))
    /\ pc' = "done"
    /\ UNCHANGED <<trace, rewrites, grade, onlyNo>>
    /\ UNCHANGED notLoop

----------------------------------------------------------------------------
(* The citation extractor of api.py, on contents that are sequences of      *)
(* lines.  A field value is the text after "KEY:" and the blanks, or, when  *)
(* that text is empty, the whole next line that is not blank: the "\s*" of  *)
(* FIELD_RE runs over line ends.  CIT_BLOCK_RE is not anchored: a marker    *)
(* with its number starts a block wherever it stands in a line, and a block *)
(* ends before an empty line that a line starting with "[CITATION" follows. *)

FieldKeys == {"SOURCE", "TITLE", "PAGE", "CHUNK", "SNIPPET"}

\* the values of the fields of a Citation: a text (a sequence of
\* characters), an integer, the whole line that a field with no text of its
\* own captured, or None
Text(s) == [text |-> s]
Number(n) == [int |-> n]
WholeLine(line) == [line |-> line]
None == [none |-> TRUE]

\* "[CITATION" in text and "SOURCE:" in text
Qualifies(content) ==
    /\ \E i \in 1..Len(content) : content[i].k \in {"CITATION", "ECHO"}
    /\ \E i \in 1..Len(content) : content[i].k \in {"SOURCE", "MENTION"}

\* the end of the block that starts at line i: the line before the first
\* blank line that a marker line follows, or the last line
RECURSIVE BlockEnd(_, _)
BlockEnd(content, i) ==
    IF i >= Len(content) THEN Len(content)
    ELSE IF /\ i + 2 <= Len(content)
            /\ content[i + 1].k = "BLANK"
            /\ content[i + 2].k = "CITATION"
         THEN i
         ELSE BlockEnd(content, i + 1)

\* CIT_BLOCK_RE.findall: the blocks from line i on, each without its marker;
\* "[CITATION" with no number after it (v empty) starts no block
RECURSIVE Blocks(_, _)
Blocks(content, i) ==
    IF i > Len(content) THEN <<>>
    ELSE IF content[i].k \in {"CITATION", "ECHO"} /\ content[i].v # <<>>
         THEN LET e == BlockEnd(content, i)
              IN  <<SubSeq(content, i + 1, e)>> \o Blocks(content, e + 1)
         ELSE Blocks(content, i + 1)

RECURSIVE SkipBlank(_)
SkipBlank(b) ==
    IF b = <<>> THEN <<>>
    ELSE IF Head(b).k = "BLANK" THEN SkipBlank(Tail(b)) ELSE b

\* FIELD_RE.findall(b): the (key, value) pairs in order
RECURSIVE FieldPairs(_)
FieldPairs(b) ==
    IF b = <<>> THEN <<>>
    ELSE LET h == Head(b)
         IN  IF h.k \notin FieldKeys THEN FieldPairs(Tail(b))
             ELSE IF LStrip(h.v) # <<>>
                  THEN << <<h.k, Text(LStrip(h.v))>> >> \o FieldPairs(Tail(b))
             ELSE LET rest == SkipBlank(Tail(b))
                  IN  IF rest = <<>> THEN << <<h.k, Text(<<>>)>> >>
                      ELSE << <<h.k, WholeLine(Head(rest))>> >>
                           \o FieldPairs(Tail(rest))

\* dict(pairs).get(key): the value of the last pair of that key
FieldGet(pairs, key) ==
    LET at == {i \in 1..Len(pairs) : pairs[i][1] = key}
    IN  IF at = {} THEN None
        ELSE pairs[CHOOSE i \in at : \A j \in at : j <= i][2]

\* (fields.get(K) or "").strip() or None
TextOrNone(value) ==
    IF "text" \in DOMAIN value
    THEN IF Strip(value.text) = <<>> THEN None ELSE Text(Strip(value.text))
    ELSE value

IsDigit(c) == c \in {"0", "1", "2", "3", "4", "5", "6", "7", "8", "9"}

DigitValue(c) ==
    CASE c = "0" -> 0 [] c = "1" -> 1 [] c = "2" -> 2 [] c = "3" -> 3
      [] c = "4" -> 4 [] c = "5" -> 5 [] c = "6" -> 6 [] c = "7" -> 7
      [] c = "8" -> 8 [] c = "9" -> 9

AllDigits(s) == \A i \in 1..Len(s) : IsDigit(s[i])

\* the value of a sequence of digits, 0 for the empty one
RECURSIVE DigitsValue(_)
DigitsValue(s) ==
    IF s = <<>> THEN 0
    ELSE 10 * DigitsValue(SubSeq(s, 1, Len(s) - 1)) + DigitValue(s[Len(s)])

\* the place of the first character of s that is in C, 0 when there is none
FirstOf(s, C) ==
    IF \E i \in 1..Len(s) : s[i] \in C
    THEN CHOOSE i \in 1..Len(s) : s[i] \in C /\ \A j \in 1..(i - 1) : s[j] \notin C
    ELSE 0

\* the first n digits of s, with zeros after them when s is shorter
RECURSIVE Shifted(_, _)
Shifted(s, n) ==
    IF n = 0 THEN <<>>
    ELSE IF s = <<>> THEN <<"0">> \o Shifted(s, n - 1)
    ELSE <<Head(s)>> \o Shifted(Tail(s), n - 1)

\* the largest decimal exponent of a finite float
MaxFloatExponent == 308

\* A whole number beyond nine digits is kept as the sequence of its decimal
\* digits, the first digit first, without leading zeros.
DigitChar(n) ==
    CASE n = 0 -> "0" [] n = 1 -> "1" [] n = 2 -> "2" [] n = 3 -> "3"
      [] n = 4 -> "4" [] n = 5 -> "5" [] n = 6 -> "6" [] n = 7 -> "7"
      [] n = 8 -> "8" [] n = 9 -> "9"

RECURSIVE StripZeros(_)
StripZeros(d) ==
    IF d # <<>> /\ Head(d) = "0" THEN StripZeros(Tail(d)) ELSE d

\* the digits of d \div 2, by long division with the carry from the left
RECURSIVE Halved(_, _)
Halved(d, carry) ==
    IF d = <<>> THEN <<>>
    ELSE LET cur == 10 * carry + DigitValue(Head(d))
         IN  <<DigitChar(cur \div 2)>> \o Halved(Tail(d), cur % 2)

\* the digits of 2 * d + carry
RECURSIVE Doubled(_, _)
Doubled(d, carry) ==
    IF d = <<>> THEN (IF carry = 0 THEN <<>> ELSE <<DigitChar(carry)>>)
    ELSE LET cur == 2 * DigitValue(d[Len(d)]) + carry
         IN  Doubled(SubSeq(d, 1, Len(d) - 1), cur \div 10)
             \o <<DigitChar(cur % 10)>>

\* the digits of d + 1
RECURSIVE Incremented(_)
Incremented(d) ==
    IF d = <<>> THEN <<"1">>
    ELSE IF d[Len(d)] # "9"
         THEN SubSeq(d, 1, Len(d) - 1) \o <<DigitChar(DigitValue(d[Len(d)]) + 1)>>
         ELSE Incremented(SubSeq(d, 1, Len(d) - 1)) \o <<"0">>

\* d < e, for digits without leading zeros
Less(d, e) ==
    \/ Len(d) < Len(e)
    \/ /\ Len(d) = Len(e)
       /\ \E i \in 1..Len(d) :
              /\ DigitValue(d[i]) < DigitValue(e[i])
              /\ \A j \in 1..(i - 1) : d[j] = e[j]

Odd(d) == d # <<>> /\ DigitValue(d[Len(d)]) % 2 = 1

\* the digits of d * 2^k
RECURSIVE DoubledTimes(_, _)
DoubledTimes(d, k) == IF k = 0 THEN d ELSE DoubledTimes(Doubled(d, 0), k - 1)

\* 2^53: a float has a mantissa of 53 binary digits (IEEE 754 binary64,
\* the float of CPython)
TwoTo53 ==
    <<"9", "0", "0", "7", "1", "9", "9", "2", "5", "4", "7", "4", "0", "9",
      "9", "2">>

\* d has lost its k lowest binary digits, the last of them being half and
\* one before it being set when sticky: halve until 53 binary digits are
\* left, round to the nearest, to the even one of two equally near, and
\* put the k binary zeros back
RECURSIVE Rounded(_, _, _, _)
Rounded(d, half, sticky, k) ==
    IF Less(d, TwoTo53)
    THEN DoubledTimes(IF half /\ (sticky \/ Odd(d)) THEN Incremented(d) ELSE d,
                      k)
    ELSE Rounded(StripZeros(Halved(d, 0)), Odd(d), sticky \/ half, k + 1)

\* float(s) of a whole number: the nearest float
RoundToDouble(d) == Rounded(StripZeros(d), FALSE, FALSE, 0)

\* a whole number beyond nine digits
BigNumber(negative, digits) == [negative |-> negative, digits |-> digits]

\* the number of these digits and this sign
AsNumber(negative, d) ==
    IF Len(d) <= 9
    THEN Number(IF negative THEN 0 - DigitsValue(d) ELSE DigitsValue(d))
    ELSE BigNumber(negative, d)

\* int(float(s)) of a trimmed text: a sign, digits with a fraction and an
\* exponent without sign; float() rounds the whole part to a float and
\* int() cuts the fraction off; Number(n), or None when float(s) raises
\* (not a numeral) or int() does (the float is not finite).  A numeral with
\* a fraction is followed up to 15 significant digits, where the rounding
\* of float() cannot reach the next whole number.
IntOfFloat(s) ==
    LET signed == s # <<>> /\ Head(s) \in {"-", "+"}
        body == IF signed THEN Tail(s) ELSE s
        e == FirstOf(body, {"e", "E"})
        mant == IF e = 0 THEN body ELSE SubSeq(body, 1, e - 1)
        expo == IF e = 0 THEN <<>> ELSE SubSeq(body, e + 1, Len(body))
        dot == FirstOf(mant, {"."})
        whole == IF dot = 0 THEN mant ELSE SubSeq(mant, 1, dot - 1)
        frac == IF dot = 0 THEN <<>> ELSE SubSeq(mant, dot + 1, Len(mant))
        numeral == /\ whole \o frac # <<>>
                   /\ AllDigits(whole) /\ AllDigits(frac)
                   /\ e # 0 => expo # <<>> /\ AllDigits(expo)
        zero == StripZeros(whole) = <<>> /\ StripZeros(frac) = <<>>
        magnitude == RoundToDouble(StripZeros(
                         whole \o Shifted(frac, DigitsValue(expo))))
    IN  IF ~numeral THEN None
        ELSE IF zero THEN Number(0)
        ELSE IF Len(whole) + DigitsValue(expo) > MaxFloatExponent + 1 THEN None
        ELSE AsNumber(signed /\ Head(s) = "-", magnitude)

\* _to_int: the text trimmed, "" gives None, else int(float(s)) or None
ToInt(value) ==
    CASE "text" \in DOMAIN value ->
            IF Strip(value.text) = <<>> THEN None
            ELSE IntOfFloat(Strip(value.text))
      [] "line" \in DOMAIN value ->
            IF value.line.k = "TEXT" /\ Strip(value.line.v) # <<>>
            THEN IntOfFloat(Strip(value.line.v)) ELSE None
      [] OTHER -> None

Citation(source, title, page, chunk, snippet) ==
    [class |-> "Citation", source |-> source, title |-> title, page |-> page,
     chunk |-> chunk, snippet |-> snippet]

\* ModelDump leaving the page out
ModelDumpUnpaged(c) ==
    [source |-> c.source, title |-> c.title, page |-> None,
     chunk |-> c.chunk, snippet |-> c.snippet]

\* Citation.model_dump()
ModelDump(c) ==
    [source |-> c.source, title |-> c.title, page |-> c.page,
     chunk |-> c.chunk, snippet |-> c.snippet]

\* Citation(**c) if isinstance(c, dict) else c
AsCitation(c) ==
    IF "class" \in DOMAIN c THEN c
    ELSE Citation(c.source, c.title, c.page, c.chunk, c.snippet)

MapSeq(s, F(_)) == [i \in 1..Len(s) |-> F(s[i])]

\* the citations of the blocks: a block with no SOURCE value is dropped
RECURSIVE BlockCitations(_)
BlockCitations(blocks) ==
    IF blocks = <<>> THEN <<>>
    ELSE LET fields == FieldPairs(Head(blocks))
             src == TextOrNone(FieldGet(fields, "SOURCE"))
             Field(key) == TextOrNone(FieldGet(fields, key))
         IN  IF src = None THEN BlockCitations(Tail(blocks))
             ELSE <<Citation(src, Field("TITLE"),
                             ToInt(FieldGet(fields, "PAGE")),
                             Field("CHUNK"), Field("SNIPPET"))>>
                  \o BlockCitations(Tail(blocks))

\* _collect_last_citations: the messages from the last to the first
RECURSIVE CollectLastCitations(_)
CollectLastCitations(msgs) ==
    IF msgs = <<>> THEN <<>>
    ELSE LET content == msgs[Len(msgs)].content
             older == SubSeq(msgs, 1, Len(msgs) - 1)
         IN  IF content = <<>> \/ ~Qualifies(content)
             THEN CollectLastCitations(older)
             ELSE IF Blocks(content, 1) = <<>>
                  THEN CollectLastCitations(older)
                  ELSE BlockCitations(Blocks(content, 1))

\* _extract_text of a str content
ExtractText(content) == content

\* no call of _collect_last_citations yet, on no messages
NoCall == [pc |-> "start", msgs |-> <<>>, out |-> <<>>]

\* citations = _collect_last_citations(messages)
Collect(msgs) ==
    /\ ex.pc = "start"
    /\ ex' = [pc |-> "done", msgs |-> msgs, out |-> CollectLastCitations(msgs)]

----------------------------------------------------------------------------
(* The conversations given to the citation extractor on its own.           *)

\* the passages of the specification's example: page "12" and page "N/A"
DocA == Doc(<<"a">>, <<"T">>, <<"1", "2">>, <<"1">>, <<Line("TEXT", <<"u">>)>>)
DocN == Doc(<<"n">>, <<"U">>, <<"N", "/", "A">>, <<"2">>,
            <<Line("TEXT", <<"v">>)>>)
\* a passage with no source in its metadata but the empty text
DocE == Doc(<<>>, <<"V">>, <<"7">>, <<"3">>, <<Line("TEXT", <<"w">>)>>)
\* a passage with padded values and a page with a fraction
DocT == Doc(<<"t", " ">>, <<" ", "W">>, <<"3", ".", "7">>, <<"4">>,
            <<Line("TEXT", <<"x">>)>>)

\* passages whose page is a whole number of 16 digits (2^53 + 1), the text
\* "inf", and a numeral beyond the largest float
DocBig == Doc(<<"b">>, <<"X">>,
              <<"9", "0", "0", "7", "1", "9", "9", "2", "5", "4", "7", "4",
                "0", "9", "9", "3">>,
              <<"5">>, <<Line("TEXT", <<"y">>)>>)
DocInf == Doc(<<"i">>, <<"Y">>, <<"i", "n", "f">>, <<"6">>,
              <<Line("TEXT", <<"y">>)>>)
DocOver == Doc(<<"o">>, <<"Z">>, <<"1", "e", "9", "9", "9">>, <<"7">>,
               <<Line("TEXT", <<"y">>)>>)

\* the lists of passages a search returns
DocLists ==
    { <<>>, <<DocA>>, <<DocP>>, <<DocF>>, <<DocG>>, <<DocH>>, <<DocT>>,
      <<DocA, DocN>>, <<DocE, DocA>>, <<DocN, DocE>>, <<DocBig>>, <<DocInf>>,
      <<DocOver>> }

\* the tool messages of these searches
ToolMessages == {Message("tool", RetrieveBlogPosts(d), FALSE) : d \in DocLists}

\* what else a conversation holds: the question, an assistant message that
\* asks for the tool, answers that echo a marker, with and without the word
\* "SOURCE:", and a text with "[CITATION" and a SOURCE line but no number;
\* a question that carries a record of its own after its first line
QuestionWithRecord ==
    <<Line("TEXT", <<"q", "?">>), Line("CITATION", <<"1">>),
      Line("SOURCE", <<" ", "z">>)>>

OtherMessages ==
    { Message("user", Question, FALSE),
      Message("user", QuestionWithRecord, FALSE),
      Message("ai", <<>>, TRUE),
      Message("ai", GroundedAnswer, FALSE),
      Message("ai", <<Line("MENTION", <<" ", "p">>), Line("ECHO", <<"1">>)>>,
              FALSE),
      Message("ai", <<Line("CITATION", <<>>), Line("SOURCE", <<" ", "z">>)>>,
              FALSE) }

MaxMessages == 2

RECURSIVE SeqsUpTo(_, _)
SeqsUpTo(S, n) ==
    IF n = 0 THEN {<<>>}
    ELSE LET shorter == SeqsUpTo(S, n - 1)
         IN  shorter \cup {Append(q, x) : q \in shorter, x \in S}

Conversations == SeqsUpTo(ToolMessages \cup OtherMessages, MaxMessages)

----------------------------------------------------------------------------
(* The handler of POST /v1/chat.  The coroutines of the requests run on the *)
(* event loop, one at a time between two awaits; graph.invoke runs on a     *)
(* thread of its own (asyncio.to_thread) under asyncio.wait_for.            *)

NumRequests == 2
ReqIds == 1..NumRequests
ChatMessages == {QA, QA2, QD}

\* the detail of an error: the kind and the message of the failure, or the
\* budget of the timeout
Detail(kind, message, budget) ==
    [kind |-> kind, message |-> message, budget |-> budget]
NoDetail == Detail("none", "none", 0)

\* the failures of the collaborators: embed_query, graph.invoke
EmbeddingFailure == Detail("EmbeddingError", "embedding provider failed", 0)
RunFailure == Detail("LLMError", "language model failed", 0)

\* ChatRequest.timeout_s: Field(default=60, ge=1)
TimeoutBudgets == {1, 60}

NoResponse == [status |-> 0, answer |-> <<>>, citations |-> <<>>,
               cached |-> FALSE, detail |-> NoDetail]

\* pc: where the handler stands; lookup: what cache.get returned; thread:
\* graph.invoke on its thread; result: what it returned; awaited: how the
\* await ended; invoked, puts: the calls of graph.invoke and the completed
\* calls of cache.put; error: the failure that reached the handler;
\* llm_result: what llm.invoke returned to rewrite_question in the run, and
\* llm_from: the request in whose run the Language Model generated it
NewRequest == [pc |-> "new", message |-> <<>>, timeout_s |-> 0,
               lookup |-> NoResult,
               thread |-> "none", result |-> <<>>, awaited |-> "none",
               invoked |-> 0, puts |-> 0, error |-> NoDetail,
               llm_result |-> <<>>, llm_from |-> 0,
               response |-> NoResponse]

\* the final messages of a run of the graph on the message m
GraphResults(m) ==
    LET first == Message("user", <<Line("TEXT", m)>>, FALSE)
    IN  { <<first, Message("ai", DirectAnswer, FALSE)>> }
        \cup { <<first, Message("ai", <<>>, TRUE), Message("tool", output, FALSE),
                 Message("ai", GroundedAnswer, FALSE)>> : output \in ToolOutputs }

\* CachedResponse without cached=True
CachedResponseUnflagged(hit) ==
    [NoResponse EXCEPT !.status = 200, !.answer = hit.answer,
                       !.citations = MapSeq(hit.citations, AsCitation)]

\* ChatResponse(trace_id, answer, citations, cached=True) of a hit
CachedResponse(hit) ==
    [NoResponse EXCEPT !.status = 200, !.answer = hit.answer,
                       !.citations = MapSeq(hit.citations, AsCitation),
                       !.cached = TRUE]

\* ChatResponse(trace_id, answer, citations): cached defaults to False
FreshResponse(answer, citations) ==
    [NoResponse EXCEPT !.status = 200, !.answer = answer,
                       !.citations = citations]

\* raise HTTPException(status_code=..., detail=...)
ErrorResponse(status, detail) ==
    [NoResponse EXCEPT !.status = status, !.detail = detail]

\* "except Exception" placed before "except asyncio.TimeoutError": the
\* timeout is reported as an internal error
TimeoutAsInternalError(t) ==
    ErrorResponse(500, Detail("TimeoutError", "TimeoutError()", 0))

\* HTTPException(status_code=504, detail=f"Timeout after {req.timeout_s}s")
TimeoutResponse(t) == ErrorResponse(504, Detail("Timeout", "Timeout after", t))

\* HTTPException(status_code=500, detail=f"{type(e).__name__}: {e!r}")
InternalErrorResponse(e) == ErrorResponse(500, Detail(e.kind, e.message, 0))

\* an exception that leaves chat(): the server answers 500 with the fixed
\* text "Internal Server Error"
UnhandledResponse ==
    ErrorResponse(500, Detail("none", "Internal Server Error", 0))

\* the await of wait_for returns the result of the thread
AwaitReturns(r) == req[r].pc = "awaiting" /\ req[r].thread = "returned"

\* the await of wait_for raises what the thread raised
AwaitRaises(r) == req[r].pc = "awaiting" /\ req[r].thread = "raised"

\* the timeout of wait_for passes first
AwaitTimesOut(r) == req[r].pc = "awaiting" /\ req[r].thread = "running"

notChat == <<g, pf, messages, pc, trace, rewrites, grade, onlyNo, llm, llm_cache,
            ex>>

\* chat(), to the first await: the lookup, then the response of a hit or
\* the start of graph.invoke on a thread
ChatLookup(r, m, t) ==
    /\ req[r].pc = "new"
    /\ Get(m)
    /\ req' = [req EXCEPT ![r] =
                 IF last'.hit
                 THEN [@ EXCEPT !.pc = "done", !.message = m, !.timeout_s = t,
                                !.lookup = last',
                                !.response = CachedResponse(last')]
                 ELSE [@ EXCEPT !.pc = "awaiting", !.message = m,
                                !.timeout_s = t,
                                !.lookup = last', !.thread = "running",
                                !.invoked = @ + 1]]
    /\ UNCHANGED notChat

\* chat(): embed_query raises in cache.get, which is called before the try;
\* get computes the embedding only when the store holds an entry, and
\* before it changes anything
ChatLookupFails(r, m, t) ==
    /\ req[r].pc = "new"
    /\ store # <<>>
    /\ req' = [req EXCEPT ![r].pc = "done", ![r].message = m,
                  ![r].timeout_s = t, ![r].error = EmbeddingFailure,
                  ![r].response = UnhandledResponse]
    /\ UNCHANGED <<store, now, last>>
    /\ UNCHANGED notChat

\* the thread: graph.invoke returns its final state
GraphReturns(r) ==
    /\ req[r].thread = "running"
    /\ \E res \in GraphResults(req[r].message) :
          req' = [req EXCEPT ![r].thread = "returned", ![r].result = res]
    /\ UNCHANGED <<store, now, last>>
    /\ UNCHANGED notChat

\* the thread: graph.invoke raises
GraphRaises(r) ==
    /\ req[r].thread = "running"
    /\ req' = [req EXCEPT ![r].thread = "raised"]
    /\ UNCHANGED <<store, now, last>>
    /\ UNCHANGED notChat

\* chat(), after the await: citations, answer, cache.put, the response
ChatComplete(r) ==
    /\ AwaitReturns(r)
    /\ LET msgs == req[r].result
           citations == CollectLastCitations(msgs)
           answer == IF msgs = <<>> THEN <<>>
                     ELSE ExtractText(msgs[Len(msgs)].content)
       IN  /\ Put(req[r].message, answer, MapSeq(citations, ModelDump))
           /\ req' = [req EXCEPT ![r].pc = "done", ![r].puts = @ + 1,
                         ![r].awaited = "returned",
                         ![r].response = FreshResponse(answer, citations)]
    /\ UNCHANGED notChat

\* chat(): embed_query raises in cache.put, before the entry is stored;
\* except Exception -> 500
ChatPutFails(r) ==
    /\ AwaitReturns(r)
    /\ req' = [req EXCEPT ![r].pc = "done", ![r].awaited = "returned",
                  ![r].error = EmbeddingFailure,
                  ![r].response = InternalErrorResponse(EmbeddingFailure)]
    /\ UNCHANGED <<store, now, last>>
    /\ UNCHANGED notChat

\* chat(): except Exception -> 500
ChatFails(r) ==
    /\ AwaitRaises(r)
    /\ req' = [req EXCEPT ![r].pc = "done", ![r].awaited = "raised",
                  ![r].error = RunFailure,
                  ![r].response = InternalErrorResponse(RunFailure)]
    /\ UNCHANGED <<store, now, last>>
    /\ UNCHANGED notChat

\* ChatTimesOut with the put moved into the handler of the timeout: it
\* stores what there is, an empty answer
ChatTimesOutAndPuts(r) ==
    /\ AwaitTimesOut(r)
    /\ Put(req[r].message, <<>>, <<>>)
    /\ req' = [req EXCEPT ![r].pc = "done", ![r].awaited = "timeout",
                  ![r].puts = @ + 1,
                  ![r].response = TimeoutResponse(req[r].timeout_s)]
    /\ UNCHANGED notChat

\* chat(): except asyncio.TimeoutError -> 504; the thread runs on
ChatTimesOut(r) ==
    /\ AwaitTimesOut(r)
    /\ req' = [req EXCEPT ![r].pc = "done", ![r].awaited = "timeout",
                  ![r].response = TimeoutResponse(req[r].timeout_s)]
    /\ UNCHANGED <<store, now, last>>
    /\ UNCHANGED notChat

\* what the Language Model may generate for a rewrite of a question
LlmGenerations == {RewrittenQuestion, <<Line("TEXT", <<"q", "3">>)>>}

\* the prompt of rewrite_question in the run of request r
RequestPrompt(r) ==
    RewritePrompt(<<Message("user", <<Line("TEXT", req[r].message)>>, FALSE)>>)

\* llm.invoke in rewrite_question, in the run of request r, under the cache
\* that build_graph installs for the process with set_llm_cache: a prompt
\* the cache holds is answered with the generation stored for it; for any
\* other prompt the Language Model generates and the cache is updated
LlmInvoke(r) ==
    /\ req[r].thread = "running"
    /\ req[r].llm_from = 0
    /\ LET prompt == RequestPrompt(r)
           cached == {e \in llm_cache : e.prompt = prompt}
       IN  IF cached # {}
           THEN /\ \E e \in cached :
                      req' = [req EXCEPT ![r].llm_result = e.generation,
                                         ![r].llm_from = e.by]
                /\ UNCHANGED llm_cache
           ELSE \E gen \in LlmGenerations :
                   /\ llm_cache' = llm_cache \cup
                          {[prompt |-> prompt, generation |-> gen, by |-> r]}
                   /\ req' = [req EXCEPT ![r].llm_result = gen,
                                         ![r].llm_from = r]
    /\ UNCHANGED <<store, now, last, g, pf, messages, pc, trace, rewrites, grade,
                   onlyNo, llm, ex>>

\* DELETE /v1/cache
ChatCacheClear ==
    /\ store # <<>>
    /\ Clear
    /\ UNCHANGED <<g, pf, messages, pc, trace, rewrites, grade, onlyNo, llm,
                   llm_cache, req, ex>>

----------------------------------------------------------------------------
(* The specifications.                                                     *)

Init ==
    /\ store = <<>>
    /\ now = 0
    /\ last = NoResult
    /\ g = IdleFrame
    /\ pf = IdlePut
    /\ messages = <<Message("user", Question, FALSE)>>
    /\ pc = "generate_query_or_respond"
    /\ trace = <<"Decide">>
    /\ rewrites = 0
    /\ grade = NotGraded
    /\ onlyNo = TRUE
    /\ llm = NoPrompt
    /\ llm_cache = {}
    /\ req = [r \in ReqIds |-> NewRequest]
    /\ ex = NoCall

notCache == <<g, pf, messages, pc, trace, rewrites, grade, onlyNo, llm, llm_cache,
             req, ex>>

DoGet == (\E q \in Queries : Get(q)) /\ UNCHANGED notCache
DoPut ==
    /\ \E q \in Queries, p \in Payloads : Put(q, p.answer, p.citations)
    /\ UNCHANGED notCache
DoGetFails == GetFails /\ UNCHANGED notCache
DoPutFails == PutFails /\ UNCHANGED notCache
DoInvalidate == (\E q \in Queries : Invalidate(q)) /\ UNCHANGED notCache
DoClear == Clear /\ UNCHANGED notCache
DoSize == Size /\ UNCHANGED notCache
DoTick == Tick /\ UNCHANGED notCache

\* the state of Init with a conversation waiting for the extractor
InitExtract ==
    /\ store = <<>>
    /\ now = 0
    /\ last = NoResult
    /\ g = IdleFrame
    /\ pf = IdlePut
    /\ messages = <<Message("user", Question, FALSE)>>
    /\ pc = "generate_query_or_respond"
    /\ trace = <<"Decide">>
    /\ rewrites = 0
    /\ grade = NotGraded
    /\ onlyNo = TRUE
    /\ llm = NoPrompt
    /\ llm_cache = {}
    /\ req = [r \in ReqIds |-> NewRequest]
    /\ ex \in {[NoCall EXCEPT !.msgs = c] : c \in Conversations}

Extract ==
    /\ Collect(ex.msgs)
    /\ UNCHANGED <<store, now, last, g, pf, messages, pc, trace, rewrites, grade,
                   onlyNo, llm, llm_cache, req>>

ExtractNext == Extract

\* _collect_last_citations on each conversation
SpecExtract == InitExtract /\ [][ExtractNext]_vars

\* the cache, one operation after the other
Next ==
    \/ DoGet
    \/ DoPut
    \/ DoGetFails
    \/ DoPutFails
    \/ DoInvalidate
    \/ DoClear
    \/ DoSize
    \/ DoTick

Spec == Init /\ [][Next]_vars

\* the cache given queries of other keys whose embeddings have the same
\* direction, one operation after the other
SameDirectionNext ==
    \/ (\E q \in SameDirectionQueries : Get(q)) /\ UNCHANGED notCache
    \/ /\ \E q \in SameDirectionQueries, p \in Payloads :
              Put(q, p.answer, p.citations)
       /\ UNCHANGED notCache
    \/ (\E q \in SameDirectionQueries : Invalidate(q)) /\ UNCHANGED notCache
    \/ DoTick

SpecSameDirection == Init /\ [][SameDirectionNext]_vars

\* a get on the event loop thread beside clear() on a worker thread
RaceNext ==
    \/ \E q \in Queries : GetBegin(q)
    \/ GetEmbed
    \/ GetSweepList
    \/ GetSweepDelete
    \/ GetScanNext
    \/ GetSelect
    \/ CacheClear
    \/ PutOnLoop
    \/ DoTick

SpecRace == Init /\ [][RaceNext]_vars

\* a put on the event loop thread beside the size read of cache_stats and
\* the clear() of cache_clear on worker threads
PutRaceNext ==
    \/ \E q \in Queries, p \in Payloads : PutInsert(q, p.answer, p.citations)
    \/ PutCheck
    \/ PutPickOldest
    \/ PutDel
    \/ GetOnLoop
    \/ DoSize
    \/ CacheClear
    \/ DoTick

SpecPutRace == Init /\ [][PutRaceNext]_vars

\* chat(), after the run: the citations of the final messages
CollectAfterRun ==
    /\ pc \in {"END", "done"}
    /\ Collect(messages)
    /\ UNCHANGED <<store, now, last, g, pf, messages, pc, trace, rewrites, grade,
                   onlyNo, llm, llm_cache, req>>

\* one run of the graph
LoopNext ==
    \/ GenerateQueryOrRespond
    \/ Retrieve
    \/ Grade
    \/ RewriteQuestion
    \/ GenerateAnswer
    \/ CollectAfterRun

SpecLoop == Init /\ [][LoopNext]_vars

\* the requests of /v1/chat and DELETE /v1/cache
ChatNext ==
    \/ \E r \in ReqIds, m \in ChatMessages, t \in TimeoutBudgets :
          ChatLookup(r, m, t)
    \/ \E r \in ReqIds, m \in ChatMessages, t \in TimeoutBudgets :
          ChatLookupFails(r, m, t)
    \/ \E r \in ReqIds : GraphReturns(r)
    \/ \E r \in ReqIds : GraphRaises(r)
    \/ \E r \in ReqIds : ChatComplete(r)
    \/ \E r \in ReqIds : ChatPutFails(r)
    \/ \E r \in ReqIds : ChatFails(r)
    \/ \E r \in ReqIds : ChatTimesOut(r)
    \/ ChatCacheClear

SpecChat == Init /\ [][ChatNext]_vars

\* the requests of /v1/chat whose runs call the Language Model
LlmCacheNext ==
    \/ \E r \in ReqIds, m \in ChatMessages, t \in TimeoutBudgets :
          ChatLookup(r, m, t)
    \/ \E r \in ReqIds : LlmInvoke(r)
    \/ \E r \in ReqIds : GraphReturns(r)
    \/ \E r \in ReqIds : ChatComplete(r)
    \/ ChatCacheClear

SpecLlmCache == Init /\ [][LlmCacheNext]_vars

----------------------------------------------------------------------------
(* Properties of the cache, checked under Spec.                            *)

\* the step is an operation op of the cache that has returned (every
\* operation records itself in last; a step that changes neither last nor
\* store is a repetition with nothing to observe)
Completed(op) ==
    /\ last'.op = op
    /\ last'.error = "none"
    /\ <<store, last>>' # <<store, last>>

\* the entries of s that are within their time to live at time t
LiveAt(s, t) == {i \in 1..Len(s) : t - s[i].created_at <= Ttl}

SimTo(query, e) == CosineSimilarity(EmbedQuery(query), e.embedding)

\* the entries of maximal similarity to the query among the indices in L
ArgMax(s, L, query) ==
    {i \in L : \A j \in L : SimGE(SimTo(query, s[i]), SimTo(query, s[j]))}

GetContract(query) ==
    LET L == LiveAt(store, now)
        M == ArgMax(store, L, query)
        isHit == M # {} /\ \E i \in M : SimGE(SimTo(query, store[i]), Threshold)
    IN  /\ last'.hit <=> isHit
        /\ isHit => /\ last'.answer = store[Min(M)].answer
                     /\ last'.citations = store[Min(M)].citations

\* C1: get returns a hit iff the maximal cosine similarity between the
\* query embedding and the embeddings of the entries that are not expired is
\* at least the threshold, and then returns the answer and citations of the
\* first entry that attains the maximum; otherwise it returns a miss.
C1_GetHitIffMaxSimilarity ==
    [][Completed("get") => GetContract(last'.query)]_vars

\* a get that hit while two entries of different answers were equally
\* similar to the query, and returned the first of them
C1_Witness ==
    /\ last.op = "get" /\ last.hit
    /\ Len(store) = 2
    /\ store[1].answer # store[2].answer
    /\ store[1].embedding # store[2].embedding
    /\ SimGE(SimTo(last.query, store[1]), SimTo(last.query, store[2]))
    /\ SimGE(SimTo(last.query, store[2]), SimTo(last.query, store[1]))
    /\ last.answer = store[1].answer

\* C2: after any sequence of completed operations the number of entries
\* does not exceed max_entries.
C2_SizeWithinCapacity == Len(store) <= MaxEntries

\* a put on a full cache that evicted an entry
C2_Witness == last.op = "put" /\ last.n = 1 /\ Len(store) = MaxEntries

\* C7: an entry inserted at time T is not returned by get and not counted
\* by size at any time >= T + ttl_seconds.
C7_ExpiredEntryAbsent ==
    [][/\ Completed("get") /\ last'.hit => now < last'.created_at + Ttl
       /\ Completed("size") =>
              last'.n = Cardinality({i \in 1..Len(store) :
                                        now < store[i].created_at + Ttl})]_vars

PutContract(query) ==
    LET evicted == {i \in 1..Len(store) : store[i].key \notin Keys(store')}
        grows == MakeKey(query) \notin Keys(store) /\ Len(store) = MaxEntries
    IN  /\ grows => Len(store') = MaxEntries /\ Cardinality(evicted) = 1
        /\ ~grows => evicted = {}
        /\ \A i \in evicted : \A j \in 1..Len(store) :
               store[i].created_at <= store[j].created_at

\* C10: a put of a new key on a full cache leaves exactly max_entries
\* entries, and every entry a put evicts has the minimal created_at of the
\* entries present.
C10_EvictsOldest ==
    [][Completed("put") => PutContract(last'.query)]_vars

\* a put evicted an entry that was not the first of the dict: the first
\* entry, re-put since, is younger than the evicted one
C10_Witness ==
    /\ last.op = "put" /\ last.n = 1 /\ last.pos > 1
    /\ Len(store) = MaxEntries
    /\ last.created_at < store[1].created_at

----------------------------------------------------------------------------
(* Properties of a get that runs beside cache_clear, checked under SpecRace *)

\* C4: a get observes a consistent snapshot of the entries: the entry it
\* selected in its scan is still present when it reads it, and the get never
\* fails because the store was changed under it.
C4_GetConsistentSnapshot ==
    /\ last.error = "none"
    /\ g.pc = "select" /\ g.bestKey # NoKey => g.bestKey \in Keys(store)

----------------------------------------------------------------------------
(* Properties of a run of the graph, checked under SpecLoop.               *)

Yes == <<"y", "e", "s">>

Last(s) == s[Len(s)]

\* C3: with a grader that always answers "no", the run ends within the
\* maximum number of rewrite cycles, and ends with an answer that is not
\* empty.
C3_TerminatesWithinMaxRewrites ==
    onlyNo => /\ rewrites <= MaxRewrites
              /\ pc \in {"END", "done"} => Last(messages).content # <<>>

\* the step after grade_documents: the node chosen, or the failure
Graded == pc \in {"generate_answer", "rewrite_question", "error"}

\* C8: grade_documents routes to generate_answer iff the score, lowercased
\* and trimmed, is "yes", and to rewrite_question for every other outcome of
\* the grader, malformed or absent results included; it never fails.
C8_GradeRoutesEveryOutcome ==
    Graded =>
        pc = IF grade.kind = "parsed" /\ grade.binary_score # NoneValue
                /\ Strip(Lower(grade.binary_score)) = Yes
             THEN "generate_answer" ELSE "rewrite_question"

LoopEdges ==
    { <<"Decide", "Respond">>, <<"Decide", "InvokeRetrieval">>,
      <<"InvokeRetrieval", "Grade">>, <<"Grade", "GenerateAnswer">>,
      <<"Grade", "RewriteQuery">>, <<"RewriteQuery", "Decide">> }

\* C9: a run starts in Decide and takes only the transitions Decide ->
\* Respond or InvokeRetrieval, InvokeRetrieval -> Grade, Grade ->
\* GenerateAnswer or RewriteQuery, RewriteQuery -> Decide; GenerateAnswer is
\* entered only after a Grade that judged the last retrieval relevant, and
\* InvokeRetrieval only after a Decide that asked for a tool call.
C9_OnlyListedTransitions ==
    /\ trace[1] = "Decide"
    /\ \A i \in 1..(Len(trace) - 1) : <<trace[i], trace[i + 1]>> \in LoopEdges
    /\ pc = "generate_answer" =>
          /\ Strip(Lower(grade.binary_score)) = Yes
          /\ Last(messages).role = "tool"
    /\ pc = "retrieve" => Last(messages).tool_calls

\* a run that rewrote the question and then ended in GenerateAnswer
C9_Witness ==
    /\ pc = "done" /\ rewrites >= 1
    /\ Last(trace) = "GenerateAnswer"

----------------------------------------------------------------------------
(* Properties of the requests of /v1/chat, checked under SpecChat.         *)

\* C5: a request whose lookup hits answers with cached=true and the cached
\* answer and citations, never invokes the graph and never puts; a request
\* whose lookup misses invokes the graph exactly once, and a successful
\* response of it has cached=false.
C5_HitSkipsOrchestrator ==
    \A r \in ReqIds :
        req[r].lookup.op = "get" =>
            IF req[r].lookup.hit
            THEN /\ req[r].response.status = 200
                 /\ req[r].response.cached
                 /\ req[r].response.answer = req[r].lookup.answer
                 /\ MapSeq(req[r].response.citations, ModelDump)
                        = req[r].lookup.citations
                 /\ req[r].invoked = 0
                 /\ req[r].puts = 0
            ELSE /\ req[r].invoked = 1
                 /\ req[r].response.status = 200 => ~req[r].response.cached

\* a request answered from the entry that another request has put, with
\* the citations of that entry
C5_Witness ==
    \E r \in ReqIds :
        /\ req[r].lookup.hit
        /\ req[r].response.cached
        /\ req[r].response.citations # <<>>

\* C6: when the run of the graph of a request times out or raises, the
\* request puts nothing into the cache, then or later, and it answers with
\* an error and no answer.
C6_FailedRunPutsNothing ==
    \A r \in ReqIds :
        req[r].awaited \in {"timeout", "raised"} =>
            /\ req[r].puts = 0
            /\ req[r].response.status \in {500, 504}
            /\ req[r].response.answer = <<>>
            /\ \A i \in 1..Len(store) :
                  store[i].query = req[r].message =>
                      \E o \in ReqIds \ {r} :
                          req[o].message = req[r].message /\ req[o].puts = 1

\* a request timed out and its abandoned thread has since returned
C6_Witness ==
    \E r \in ReqIds :
        /\ req[r].awaited = "timeout"
        /\ req[r].thread = "returned"
        /\ req[r].response.status = 504

----------------------------------------------------------------------------
(* Further properties of the cache, checked under Spec.                    *)

Normalized(query) == Lower(Strip(query))

\* the entries of s whose query normalizes to the same text as query
SameNormalized(s, query) ==
    {i \in 1..Len(s) : Normalized(s[i].query) = Normalized(query)}

\* C11: after a put, exactly one entry has a query that normalizes to the
\* text the put query normalizes to; it holds the answer and citations of
\* this put; and when such an entry was present before the put, the number
\* of entries has not grown.
C11_PutSameKeyOverwrites ==
    [][Completed("put") =>
         LET at == SameNormalized(store', last'.query)
         IN  /\ Cardinality(at) = 1
             /\ \A i \in at : /\ store'[i].answer = last'.answer
                              /\ store'[i].citations = last'.citations
             /\ SameNormalized(store, last'.query) # {}
                   => Len(store') = Len(store)]_vars

\* a put overwrote the entry of a query written differently (other case,
\* surrounding blanks) that held another answer
C11_Witness ==
    /\ last.op = "put"
    /\ last.prev # <<>>
    /\ last.prev[1].query # last.query
    /\ last.prev[1].answer # last.answer
    /\ Cardinality(SameNormalized(store, last.query)) = 1

----------------------------------------------------------------------------
(* Properties of the citation extractor, checked under SpecExtract.        *)

Max(S) == CHOOSE x \in S : \A y \in S : y <= x

\* the messages whose text has both "[CITATION" and "SOURCE:"
QualifyingAt(msgs) ==
    {i \in 1..Len(msgs) : msgs[i].content # <<>> /\ Qualifies(msgs[i].content)}

\* the citations parsed from one message
ParsedFrom(message) == BlockCitations(Blocks(message.content, 1))

\* C12: extract returns the citations parsed from the most recent message
\* whose text contains both "[CITATION" and "SOURCE:"; later messages
\* without both are skipped.
C12_MostRecentQualifyingMessage ==
    ex.pc = "done" /\ QualifyingAt(ex.msgs) # {} =>
        ex.out = ParsedFrom(ex.msgs[Max(QualifyingAt(ex.msgs))])

\* C13: when the most recent message with both "[CITATION" and "SOURCE:"
\* has no parseable block, extract returns the empty sequence, whatever the
\* older messages hold.
C13_NoBlocksGivesEmpty ==
    ex.pc = "done" /\ QualifyingAt(ex.msgs) # {} =>
        LET recent == ex.msgs[Max(QualifyingAt(ex.msgs))]
        IN  Blocks(recent.content, 1) = <<>> => ex.out = <<>>

\* the messages that qualify and have a block; extract parses the last one
WithBlocksAt(msgs) ==
    {i \in QualifyingAt(msgs) : Blocks(msgs[i].content, 1) # <<>>}

\* the record has a SOURCE line with a text of its own
HasOwnSource(b) ==
    \E i \in 1..Len(b) : b[i].k = "SOURCE" /\ Strip(b[i].v) # <<>>

\* C14: the citations returned are those of the records that have a SOURCE
\* line whose value is not empty after trimming, in the order of the
\* records; every other record is dropped, whatever follows its SOURCE line.
C14_EmptySourceDropped ==
    ex.pc = "done" /\ WithBlocksAt(ex.msgs) # {} =>
        LET bs == Blocks(ex.msgs[Max(WithBlocksAt(ex.msgs))].content, 1)
        IN  /\ ex.out = BlockCitations(SelectSeq(bs, HasOwnSource))
            /\ \A i \in 1..Len(ex.out) : "text" \in DOMAIN ex.out[i].source

\* the optional text of a field of a record: absent when empty
Trimmed(text) == IF Strip(text) = <<>> THEN None ELSE Text(Strip(text))

\* the Citation that a passage with a source stands for
CitationOf(doc) ==
    Citation(Trimmed(doc.source), Trimmed(doc.title),
             IF Strip(doc.page) = <<>> THEN None ELSE IntOfFloat(Strip(doc.page)),
             Trimmed(doc.chunk), Trimmed(JoinLines(doc.text)))

RECURSIVE CitationsOf(_)
CitationsOf(docs) ==
    IF docs = <<>> THEN <<>>
    ELSE IF Trimmed(Head(docs).source) = None THEN CitationsOf(Tail(docs))
    ELSE <<CitationOf(Head(docs))>> \o CitationsOf(Tail(docs))

\* C15: for a tool message in the wire format of the retriever, extract
\* returns one Citation per record with a source, in order, with the
\* trimmed values of the record's own lines and the page as an integer
\* when it is a numeral, absent otherwise.
C15_WireFormatRoundTrip ==
    \A d \in DocLists :
        /\ ex.pc = "done"
        /\ Len(ex.msgs) = 1
        /\ ex.msgs[1] = Message("tool", RetrieveBlogPosts(d), FALSE)
        => ex.out = CitationsOf(d)

----------------------------------------------------------------------------
(* Properties of the response after a run, checked under SpecLoop.         *)

\* C16: when the run ended because generate_query_or_respond answered
\* directly, the answer is that content and the citations are empty, also
\* after retrieve, grade and rewrite steps in the same run.
C16_DirectAnswerHasNoCitations ==
    ex.pc = "done" /\ pc = "END" =>
        /\ ExtractText(Last(ex.msgs).content) = DirectAnswer
        /\ ex.out = <<>>

----------------------------------------------------------------------------
(* Properties of the errors of /v1/chat, checked under SpecChat.           *)

\* C17: a request whose run has not finished when its timeout passes
\* answers 504 with the timeout budget of the request, no answer and no
\* internal error, and graph.invoke is called once for it, never again.
C17_TimeoutGives504 ==
    \A r \in ReqIds :
        /\ req[r].invoked <= 1
        /\ req[r].awaited = "timeout" =>
              /\ req[r].response.status = 504
              /\ req[r].response.detail.kind = "Timeout"
              /\ req[r].response.detail.budget = req[r].timeout_s
              /\ req[r].response.answer = <<>>
              /\ req[r].invoked = 1

\* two requests with different budgets have timed out
C17_Witness ==
    \E r, o \in ReqIds :
        /\ req[r].awaited = "timeout" /\ req[o].awaited = "timeout"
        /\ req[r].response.detail.budget = 1
        /\ req[o].response.detail.budget = 60

\* C18: every failure of a collaborator during a request (in the lookup,
\* in the run, in the put) is answered with status 500 and the kind and
\* message of the failure: no timeout error, no success, no second call.
C18_UpstreamFailureGives500 ==
    \A r \in ReqIds :
        req[r].error # NoDetail =>
            /\ req[r].response.status = 500
            /\ req[r].response.detail.kind = req[r].error.kind
            /\ req[r].response.detail.message = req[r].error.message
            /\ req[r].invoked <= 1

----------------------------------------------------------------------------
(* Properties of invalidate and clear, checked under Spec.                 *)

\* the entries of s whose query does not normalize to the same text as query
RECURSIVE Others(_, _)
Others(s, query) ==
    IF s = <<>> THEN <<>>
    ELSE IF Normalized(Head(s).query) = Normalized(query)
         THEN Others(Tail(s), query)
         ELSE <<Head(s)>> \o Others(Tail(s), query)

\* C19: invalidate(query) returns true iff an entry whose query normalizes
\* (trimmed, lowercased) to the same text was present before the call;
\* afterwards no such entry is present, and the other entries are the same
\* records as before (answer, citations, embedding, created_at, hit_count),
\* in the same order.
C19_InvalidateRemovesExactlyTheKey ==
    [][Completed("invalidate") =>
         /\ last'.removed = (SameNormalized(store, last'.query) # {})
         /\ SameNormalized(store', last'.query) = {}
         /\ store' = Others(store, last'.query)]_vars

\* an invalidate with a query written differently from its normalized form
\* has removed an entry and left another one in place
C19_Witness ==
    /\ last.op = "invalidate"
    /\ last.removed
    /\ last.query # Normalized(last.query)
    /\ store # <<>>

\* C20: clear leaves no entry, a size read on a cache without entries gives
\* 0, a get on a cache without entries misses for every query and leaves it
\* without entries, and only a put gives a cache without entries an entry.
C20_EmptyCacheMisses ==
    [][/\ Completed("clear") => store' = <<>>
       /\ (Completed("size") /\ store = <<>>) => last'.n = 0
       /\ (Completed("get") /\ store = <<>>) =>
              (~last'.hit /\ store' = <<>>)
       /\ (store = <<>> /\ store' # <<>>) => last'.op = "put"]_vars

\* a clear of a cache that held MaxEntries entries, some time after the
\* start
C20_Witness ==
    /\ last.op = "clear"
    /\ last.n = MaxEntries
    /\ store = <<>>
    /\ now > 0

----------------------------------------------------------------------------
(* Properties of expiry, hit counts and failures of the Embedding Provider, *)
(* checked under Spec.                                                      *)

\* s holds entries, and each of them is older than the time to live at t
AllExpired(s, t) ==
    /\ s # <<>>
    /\ \A i \in 1..Len(s) : t - s[i].created_at > Ttl

\* C21: a get on a cache whose entries are all expired returns a miss for
\* every query and leaves the store empty.
C21_AllExpiredGetMisses ==
    [][(Completed("get") /\ AllExpired(store, now)) =>
           (~last'.hit /\ store' = <<>>)]_vars

\* a get that missed and left the store empty after sweeping an entry
\* written with the very query of the get
C21_Witness ==
    /\ last.op = "get" /\ ~last.hit
    /\ store = <<>>
    /\ \E i \in 1..Len(last.prev) : last.prev[i].query = last.query

\* the entries of s within their time to live at time t, in order
RECURSIVE Unexpired(_, _)
Unexpired(s, t) ==
    IF s = <<>> THEN <<>>
    ELSE IF t - Head(s).created_at > Ttl THEN Unexpired(Tail(s), t)
         ELSE <<Head(s)>> \o Unexpired(Tail(s), t)

\* C22: a get that hits adds 1 to the hit_count of exactly one entry, the
\* one whose answer and citations it returns, and leaves every field of
\* the other unexpired entries, and every other field of that entry, as it
\* was; a get that misses changes no unexpired entry.
C22_HitCountsOnlyReturnedEntry ==
    [][Completed("get") =>
         LET before == Unexpired(store, now)
             changed == {i \in 1..Len(before) : store'[i] # before[i]}
         IN  /\ Len(store') = Len(before)
             /\ \A i \in changed :
                    /\ store'[i] = [before[i] EXCEPT !.hit_count = @ + 1]
                    /\ store'[i].answer = last'.answer
                    /\ store'[i].citations = last'.citations
             /\ Cardinality(changed) = IF last'.hit THEN 1 ELSE 0]_vars

\* a get has hit an entry that was put before the present tick, beside
\* another entry that it left uncounted
C22_Witness ==
    /\ last.op = "get" /\ last.hit
    /\ Len(store) = 2
    /\ \E i, j \in 1..2 :
          /\ store[i].hit_count = 1 /\ store[j].hit_count = 0
          /\ store[i].answer = last.answer
          /\ store[i].created_at < now

\* C25: after any put, no entry older than the time to live remains in the
\* store.
C25_PutSweepsExpired ==
    [][Completed("put") =>
           \A i \in 1..Len(store') : now - store'[i].created_at <= Ttl]_vars

\* the step is a get or put that the Embedding Provider has failed
Failed ==
    /\ last'.error = EmbeddingError
    /\ <<store, last>>' # <<store, last>>

\* C30: a get or put in which the Embedding Provider fails leaves the store
\* exactly as it was: the entries, their order and their hit counts.
C30_FailedEmbeddingLeavesStore ==
    [][Failed => store' = store]_vars

\* a failed get beside an entry that is past its time to live and still
\* stored
C30_Witness ==
    /\ last.op = "get" /\ last.error = EmbeddingError
    /\ \E i \in 1..Len(store) : now - store[i].created_at > Ttl

----------------------------------------------------------------------------
(* Properties of the conversation and of the prompts of a run, checked      *)
(* under SpecLoop.                                                          *)

IsPrefix(s, t) == Len(s) <= Len(t) /\ SubSeq(t, 1, Len(s)) = s

OriginalQuery == Message("user", Question, FALSE)

\* C24: every step of a run leaves the messages it found in place and in
\* order, adding only at the end, and the first message is the original
\* user query at every point of the run.
C24_ConversationOnlyGrows ==
    [][IsPrefix(messages, messages') /\ messages'[1] = OriginalQuery]_vars

\* a finished run with two retrievals and a rewrite: the original query
\* still comes first, and a user message of another content comes later
C24_Witness ==
    /\ pc = "done" /\ rewrites >= 1
    /\ Len(messages) >= 7
    /\ messages[1] = OriginalQuery
    /\ \E i \in 2..Len(messages) :
          messages[i].role = "user" /\ messages[i].content # Question

\* the content of the last message of role "tool"
LatestToolContent(msgs) ==
    LET T == {i \in 1..Len(msgs) : msgs[i].role = "tool"}
    IN  msgs[Max(T)].content

\* C27: the prompt of every Grade step and of every GenerateAnswer step
\* holds the content of the first message, which is the original query and
\* no rewritten question, as the question, and the content of the most
\* recent tool message as the context.
C27_PromptsUseOriginalQuestion ==
    llm.node \in {"grade_documents", "generate_answer"} =>
        /\ llm.question = messages[1].content
        /\ llm.question = Question
        /\ llm.context = LatestToolContent(messages)

\* GenerateAnswer after a rewrite, with two tool messages of different
\* contents in the conversation
C27_Witness ==
    /\ llm.node = "generate_answer" /\ rewrites >= 1
    /\ \E i, j \in 1..Len(messages) :
          /\ i < j
          /\ messages[i].role = "tool" /\ messages[j].role = "tool"
          /\ messages[i].content # messages[j].content
          /\ llm.context = messages[j].content

\* the steps of the run that are over: the states entered before the
\* present one, and GenerateAnswer once the run is done
Steps == IF pc = "done" THEN Len(trace) ELSE Len(trace) - 1

\* the Grade steps of the run that are over
GradesDone ==
    Cardinality({i \in 1..Len(trace) : trace[i] = "Grade"})
        - (IF pc \in {"grade_documents", "error"} THEN 1 ELSE 0)

\* C28 as stated: after k steps of a run the conversation holds k + 1
\* messages.
C28_OneMessagePerTransition == Len(messages) = Steps + 1

\* C28, amended: Decide, InvokeRetrieval, RewriteQuery and GenerateAnswer
\* each append exactly one message and Grade appends none: after k steps,
\* of which j are Grade steps, the conversation holds k - j + 1 messages.
C28_OneMessagePerNode == Len(messages) = Steps - GradesDone + 1

\* a finished run of eight steps, two of them Grade steps, with seven
\* messages
C28_Witness ==
    /\ pc = "done" /\ Steps = 8 /\ GradesDone = 2
    /\ Len(messages) = 7

\* C29: every RewriteQuery step asks for a reformulation of the content of
\* the first message, appends one user message at the end of the
\* conversation and leads to Decide; and every Decide step gives the
\* Language Model the whole conversation as it stands.
C29_RewriteUsesOriginalQuestion ==
    [][/\ (pc = "rewrite_question" /\ pc' # pc) =>
              /\ llm'.node = "rewrite_question"
              /\ llm'.question = messages[1].content
              /\ IsPrefix(messages, messages')
              /\ Len(messages') = Len(messages) + 1
              /\ messages'[Len(messages')].role = "user"
              /\ pc' = "generate_query_or_respond"
       /\ (pc = "generate_query_or_respond" /\ pc' # pc) =>
              /\ llm'.node = "generate_query_or_respond"
              /\ llm'.messages = messages]_vars

\* the Decide after the second rewrite has been given the seven messages
\* of the conversation, the two tool outputs and the two rewrites included
C29_Witness ==
    /\ rewrites = 2
    /\ llm.node = "generate_query_or_respond"
    /\ Len(llm.messages) = 7
    /\ llm.messages[3].role = "tool" /\ llm.messages[6].role = "tool"
    /\ llm.messages[4].role = "user" /\ llm.messages[7].role = "user"
    /\ llm.messages[7].content # llm.messages[1].content

----------------------------------------------------------------------------
(* Properties of the order of a request of /v1/chat, checked under SpecChat *)

CitationFields == {"source", "title", "page", "chunk", "snippet"}

\* the citations stored with an entry are those of a response, in order
SameCitations(stored, returned) ==
    /\ Len(stored) = Len(returned)
    /\ \A k \in 1..Len(stored) :
          \A f \in CitationFields : stored[k][f] = returned[k][f]

\* the step ends request r with a successful response that is not cached
AnswersFresh(r) ==
    /\ req[r].pc # "done" /\ req'[r].pc = "done"
    /\ req'[r].response.status = 200
    /\ ~req'[r].response.cached

\* C26: when a request is answered successfully after a miss, its lookup
\* was made and missed before the run, the run was invoked once and has
\* returned, the citations of the response are those extracted from the
\* messages of the run, the put is made in the same step and not before,
\* and the cache then holds an entry whose query normalizes to the same
\* text as the message, with the answer and the citations of the response.
C26_MissOrderAndStoredEntry ==
    [][\A r \in ReqIds :
          AnswersFresh(r) =>
              /\ req[r].lookup.op = "get" /\ ~req[r].lookup.hit
              /\ req[r].invoked = 1 /\ req[r].thread = "returned"
              /\ req[r].puts = 0 /\ req'[r].puts = 1
              /\ req'[r].response.citations
                     = CollectLastCitations(req[r].result)
              /\ \E i \in 1..Len(store') :
                    /\ Normalized(store'[i].query)
                           = Normalized(req[r].message)
                    /\ store'[i].answer = req'[r].response.answer
                    /\ SameCitations(store'[i].citations,
                                     req'[r].response.citations)]_vars

\* a request with the message " A" has been answered after a miss with a
\* citation that has a page, and the entry of "a" holds that answer and
\* that citation
C26_Witness ==
    \E r \in ReqIds :
        /\ req[r].message = QA2
        /\ req[r].response.status = 200 /\ ~req[r].response.cached
        /\ req[r].puts = 1
        /\ Len(req[r].response.citations) = 1
        /\ req[r].response.citations[1].page # None
        /\ \E i \in 1..Len(store) :
              /\ store[i].key = QA
              /\ store[i].answer = req[r].response.answer
              /\ SameCitations(store[i].citations, req[r].response.citations)

----------------------------------------------------------------------------
(* Properties of a put that runs beside the worker threads, checked under   *)
(* SpecPutRace.                                                             *)

\* C23: the insert and the eviction of a put are one step for every
\* observer: no size read returns more than max_entries, no get runs on a
\* store of more than max_entries entries, and no put fails because the
\* store was changed under it.
C23_PutIsAtomic ==
    /\ last.op = "size" => last.n <= MaxEntries
    /\ pf.pc = "idle" => Len(store) <= MaxEntries
    /\ last.op = "put" => last.error = "none"

----------------------------------------------------------------------------
(* Properties of embeddings of norm zero, checked under Spec.              *)

ZeroNorm(a) == Norm(a) = 0

\* C31: the cosine similarity of two embeddings of which one has norm zero
\* is 0, a rational with a denominator that is not zero (no division
\* fault); with the threshold above 0, a get that hits has a query whose
\* embedding is not of norm zero and counts (returns) an entry whose
\* embedding is not of norm zero.
C31_ZeroNormNeverHits ==
    [][Completed("get") =>
         LET before == Unexpired(store, now)
             counted == {i \in 1..Len(before) : store'[i] # before[i]}
         IN  /\ \A q1, q2 \in Queries :
                    ZeroNorm(EmbedQuery(q1)) \/ ZeroNorm(EmbedQuery(q2)) =>
                        LET sim == CosineSimilarity(EmbedQuery(q1),
                                                    EmbedQuery(q2))
                        IN  sim[1] = 0 /\ sim[2] > 0
             /\ SimGT(Threshold, <<0, 1>>)
             /\ ZeroNorm(EmbedQuery(last'.query)) => ~last'.hit
             /\ \A i \in counted : ~ZeroNorm(store'[i].embedding)]_vars

\* a get of the query of norm zero has missed on a store that holds the
\* entry written with that very query, within its time to live
C31_Witness ==
    /\ last.op = "get" /\ ~last.hit /\ last.error = "none"
    /\ ZeroNorm(EmbedQuery(last.query))
    /\ \E i \in 1..Len(store) :
          /\ store[i].query = last.query
          /\ ZeroNorm(store[i].embedding)
          /\ now - store[i].created_at <= Ttl

----------------------------------------------------------------------------
(* Properties of a put on a key that is present, checked under Spec.       *)

\* C37: a put on a normalized query that already has an entry leaves one
\* entry of that key, in the place of the old one, which is the entry the
\* constructor makes from the arguments of this put: hit_count 0 and
\* created_at the time of the put; so the entry is within its time to live
\* up to ttl after this put, and no entry of the store is newer.
C37_PutReplacesWholeEntry ==
    [][(Completed("put") /\ MakeKey(last'.query) \in Keys(store)) =>
         LET key == MakeKey(last'.query)
             i == IndexOfKey(store, key)
             entry == store'[i]
         IN  /\ Len(store') = Len(store)
             /\ \A j \in 1..Len(store) : j # i => store'[j] = store[j]
             /\ entry = CacheEntry(last'.query, last'.answer, last'.citations,
                                   EmbedQuery(last'.query), now)
             /\ entry.hit_count = 0 /\ entry.created_at = now
             /\ ~IsExpired(entry, now + Ttl) /\ IsExpired(entry, now + Ttl + 1)
             /\ \A j \in 1..Len(store') :
                    store'[j].created_at <= entry.created_at]_vars

\* a put has overwritten the entry in the first place of the dict with
\* another answer: that entry is now newer than the entry put after it,
\* and its hit count is 0
C37_Witness ==
    /\ last.op = "put" /\ last.error = "none"
    /\ Len(last.prev) = 1 /\ last.prev[1].answer # last.answer
    /\ Len(store) = 2
    /\ store[1].key = MakeKey(last.query)
    /\ store[1].answer = last.answer
    /\ store[1].hit_count = 0
    /\ store[1].created_at = now
    /\ store[2].created_at < now
    /\ store[2].hit_count = 1

----------------------------------------------------------------------------
(* Properties of a get of the query of an entry, checked under             *)
(* SpecSameDirection.                                                       *)

\* the unexpired entries of s at time t that were put with the query, of an
\* embedding that is not of norm zero
PutWith(s, t, query) ==
    {i \in LiveAt(s, t) : s[i].query = query /\ ~ZeroNorm(s[i].embedding)}

----------------------------------------------------------------------------
(* Properties of field lines without a value, checked under SpecExtract.   *)

\* the passage has no title or no page: its record has a line "TITLE: " or
\* "PAGE: " with nothing after it
HasEmptyField(doc) == Strip(doc.title) = <<>> \/ Strip(doc.page) = <<>>

\* C38: for a tool message of one record with a source, whose TITLE or PAGE
\* line has no value, the citation has that field absent and every other
\* field with the value of its own line: the title, the page as an
\* integer, the chunk and the snippet.
C38_EmptyFieldAbsentOnly ==
    \A doc \in {DocF, DocG, DocH} :
        /\ ex.pc = "done"
        /\ Len(ex.msgs) = 1
        /\ ex.msgs[1] = Message("tool", RetrieveBlogPosts(<<doc>>), FALSE)
        /\ HasEmptyField(doc)
        => /\ Len(ex.out) = 1
           /\ Strip(doc.title) = <<>> => ex.out[1].title = None
           /\ Strip(doc.title) # <<>> => ex.out[1].title = Trimmed(doc.title)
           /\ Strip(doc.page) = <<>> => ex.out[1].page = None
           /\ Strip(doc.page) # <<>> =>
                  ex.out[1].page = IntOfFloat(Strip(doc.page))
           /\ ex.out[1].chunk = Trimmed(doc.chunk)
           /\ ex.out[1].snippet = Trimmed(JoinLines(doc.text))

----------------------------------------------------------------------------
(* Properties of the origin of the citations, checked under SpecExtract.   *)

\* C35: the citations that extract returns, when it returns any, are those
\* parsed from a tool message of the conversation: no text of a user or
\* assistant message becomes a citation.
C35_CitationsComeFromToolMessages ==
    ex.pc = "done" /\ ex.out # <<>> =>
        \E i \in 1..Len(ex.msgs) :
            /\ ex.msgs[i].role = "tool"
            /\ ex.out = ParsedFrom(ex.msgs[i])

----------------------------------------------------------------------------
(* Properties of the parsing of PAGE, checked under SpecExtract.           *)

\* the page that a PAGE value stands for: the whole part of a literal of
\* digits, with or without a sign and a fraction; absent for anything else
IntegerPart(text) ==
    LET s == Strip(text)
        signed == s # <<>> /\ Head(s) \in {"-", "+"}
        body == IF signed THEN Tail(s) ELSE s
        dot == FirstOf(body, {"."})
        whole == IF dot = 0 THEN body ELSE SubSeq(body, 1, dot - 1)
        frac == IF dot = 0 THEN <<>> ELSE SubSeq(body, dot + 1, Len(body))
    IN  IF whole # <<>> /\ AllDigits(whole) /\ AllDigits(frac)
        THEN AsNumber(signed /\ Head(s) = "-", StripZeros(whole))
        ELSE None

\* the searches whose passages all have a source and a title, so that
\* every PAGE line is parsed as the value of PAGE
PagedDocLists ==
    { <<DocA>>, <<DocP>>, <<DocH>>, <<DocT>>, <<DocA, DocN>>, <<DocBig>>,
      <<DocInf>>, <<DocOver>> }

\* C32: for a tool message of records with a source and a title, extract
\* returns one citation per record (the record is kept whatever its PAGE
\* value), whose page is the whole part of the PAGE value when that is a
\* literal of digits, with or without a fraction, and absent when the
\* value is empty, not a numeral, beyond the largest float or not finite.
C32_PageIsIntegerPartOrAbsent ==
    \A d \in PagedDocLists :
        /\ ex.pc = "done"
        /\ Len(ex.msgs) = 1
        /\ ex.msgs[1] = Message("tool", RetrieveBlogPosts(d), FALSE)
        => /\ Len(ex.out) = Len(d)
           /\ \A i \in 1..Len(d) : ex.out[i].page = IntegerPart(d[i].page)

----------------------------------------------------------------------------
(* Properties of two requests with one message, checked under SpecChat.    *)

\* request r has been answered successfully after a miss
AnsweredFresh(r) ==
    /\ req[r].pc = "done"
    /\ req[r].response.status = 200 /\ ~req[r].response.cached
    /\ req[r].lookup.op = "get" /\ ~req[r].lookup.hit

\* the entries of s whose query normalizes like the message
EntriesOf(s, message) ==
    {i \in 1..Len(s) : Normalized(s[i].query) = Normalized(message)}

\* C36: when a request is answered after a miss while another request
\* with the same normalized message has been answered after a miss before
\* it, the run was invoked once for each of them, and the cache then holds
\* exactly one entry for that message, with the answer and the citations
\* of the request that is answered now, whose put is the later one.
C36_TwoMissesLastPutWins ==
    [][\A r, o \in ReqIds :
          (/\ r # o
           /\ AnswersFresh(r)
           /\ AnsweredFresh(o)
           /\ Normalized(req[o].message) = Normalized(req[r].message))
          => /\ ~req[r].lookup.hit
             /\ req[r].invoked = 1 /\ req[o].invoked = 1
             /\ req'[r].puts = 1 /\ req[o].puts = 1
             /\ Cardinality(EntriesOf(store', req[r].message)) = 1
             /\ \A i \in EntriesOf(store', req[r].message) :
                   /\ store'[i].answer = req'[r].response.answer
                   /\ SameCitations(store'[i].citations,
                                    req'[r].response.citations)]_vars

\* two requests with the message "a" have both missed and both been
\* answered, with different answers; the last operation of the cache is a
\* put, and the one entry of "a" holds the answer of one of them
C36_Witness ==
    /\ \A r \in ReqIds : AnsweredFresh(r) /\ req[r].message = QA
    /\ req[1].response.answer # req[2].response.answer
    /\ last.op = "put"
    /\ Cardinality(EntriesOf(store, QA)) = 1
    /\ \E r \in ReqIds : \A i \in EntriesOf(store, QA) :
          /\ store[i].answer = req[r].response.answer
          /\ SameCitations(store[i].citations, req[r].response.citations)

----------------------------------------------------------------------------
(* Properties of what the requests share, checked under SpecLlmCache.      *)

\* C33: what the Language Model returned to the run of a request was
\* generated in the run of that request: no request works with a result
\* of the Language Model of another request, running beside it or before.
C33_LlmResultsAreOwn ==
    \A r \in ReqIds : req[r].llm_from \in {0, r}

====
